---- MODULE Spec2Model ----
(***************************************************************************)
(* SafeRoute AI: the retrying request executor (withRetry), the staged     *)
(* orchestrators (App's init effect and the script's                       *)
(* fetchEnvironmentAnalysis), the state they write, the map views that     *)
(* show it (MapComponent's effect and the script's updateMap), the chat    *)
(* (handleSendMessage, handleChat) and the SOS switch.                     *)
(*                                                                         *)
(* The repository holds two programs that share the design:                *)
(*   - the React application: src/App.tsx, the service module              *)
(*     src/unnamed/part_001 (geminiService) and the MapComponent of        *)
(*     src/unnamed/part_000, lines 1-109;                                  *)
(*   - the script: src/unnamed/part_000, lines 111-524.                    *)
(* Every await of the source is a suspension point and ends an action; the *)
(* code between two suspension points is one action: the callback of a     *)
(* timer or of a service reply, with every promise continuation it runs.   *)
(***************************************************************************)
EXTENDS Integers, Sequences, FiniteSets, TLC

(***************************************************************************)
(* Bounds of the model.                                                    *)
(***************************************************************************)
\* The largest retry budget the harness passes to withRetry.
MaxRetries == 4
\* The number of fetchEnvironmentAnalysis runs the script may start.
MaxRuns == 2

\* The markers whose creation is counted.
MaxMade == 2

\* The number of chat messages the user may send.
MaxSends == 2

(***************************************************************************)
(* Program constants.                                                      *)
(***************************************************************************)
ServiceDefaultRetries == 4
ScriptDefaultRetries == 3
DefaultDelay == 2000
JitterBound == 1000
InitStageDelay == 2000
FetchStageDelay == 1000

(***************************************************************************)
(* Strings are modelled as sequences of characters, so that toLowerCase    *)
(* and includes are computed, not assumed.                                 *)
(***************************************************************************)
UpperChars ==
    <<"A","B","C","D","E","F","G","H","I","J","K","L","M",
      "N","O","P","Q","R","S","T","U","V","W","X","Y","Z">>

LowerChars ==
    <<"a","b","c","d","e","f","g","h","i","j","k","l","m",
      "n","o","p","q","r","s","t","u","v","w","x","y","z">>

\* The lower-case letter of each upper-case letter.
LowerOf ==
    [c \in {UpperChars[i] : i \in 1..26} |->
        LowerChars[CHOOSE i \in 1..26 : UpperChars[i] = c]]

LowerChar(c) == IF c \in DOMAIN LowerOf THEN LowerOf[c] ELSE c

\* String.prototype.toLowerCase
toLowerCase(s) == [i \in 1..Len(s) |-> LowerChar(s[i])]

\* String.prototype.includes
includes(s, sub) ==
    \E i \in 0..(Len(s) - Len(sub)) : SubSeq(s, i + 1, i + Len(sub)) = sub

\* String.prototype.trim, for texts whose only white space is the blank
RECURSIVE trimStart(_)
trimStart(s) == IF s # <<>> /\ Head(s) = " " THEN trimStart(Tail(s)) ELSE s

RECURSIVE trimEnd(_)
trimEnd(s) ==
    IF s # <<>> /\ s[Len(s)] = " " THEN trimEnd(SubSeq(s, 1, Len(s) - 1)) ELSE s

trim(s) == trimEnd(trimStart(s))

Str429 == <<"4","2","9">>
StrQuota == <<"q","u","o","t","a">>
StrExhausted == <<"e","x","h","a","u","s","t","e","d">>

(***************************************************************************)
(* The failures an operation may raise.  Every failure of the inference    *)
(* SDK and of JSON.parse is an Error object, whose message is a string or  *)
(* is missing; attempt tells the failures of one call apart.               *)
(***************************************************************************)
MsgHttp429 == <<"H","T","T","P"," ","4","2","9">>
MsgQuota == <<"Q","u","o","t","a"," ","h","i","t">>
MsgExhausted == <<"R","E","S","O","U","R","C","E","_","E","X","H","A","U","S","T","E","D">>
MsgNetwork == <<"N","e","t","w","o","r","k">>
MsgNearMiss == <<"4","2","8"," ","q","u","o","t","e","d">>
MsgEmpty == <<>>
\* The SyntaxError of JSON.parse: "Unexpected token ...", which on some
\* engines quotes the head of the text it could not parse.
MsgSyntax == <<"U","n","e","x","p","e","c","t","e","d">>
MsgSyntaxEcho == <<"U","n","e","x","p","e","c","t","e","d"," ","Q","u","o","t","a">>

\* The messages that carry the rate-limit signature, and those that do not.
SignedMessages == {MsgHttp429, MsgQuota, MsgExhausted, MsgSyntaxEcho}
UnsignedMessages == {MsgNetwork, MsgNearMiss, MsgEmpty, MsgSyntax}

NoError == [attempt |-> 0, hasMessage |-> FALSE, message |-> <<>>]

Failure(n, has, m) == [attempt |-> n, hasMessage |-> has, message |-> m]

(***************************************************************************)
(* The inference service's reply to one request, and the outcome of one    *)
(* invocation of the operation withRetry wraps.                            *)
(***************************************************************************)
Reject(has, m) == [rejected |-> TRUE, hasMessage |-> has, message |-> m, text |-> "none"]

Resolve(t) == [rejected |-> FALSE, hasMessage |-> FALSE, message |-> <<>>, text |-> t]

Ok(v) == [ok |-> TRUE, value |-> v, hasMessage |-> FALSE, message |-> <<>>]

Fail(has, m) == [ok |-> FALSE, value |-> "none", hasMessage |-> has, message |-> m]

\* Whether the operation's outcome is a failure with the rate-limit signature
\* (a fact about the input, stated without the code's classification).
SignedOutcome(o) == ~o.ok /\ o.hasMessage /\ o.message \in SignedMessages

OutcomeKind(o) == IF o.ok THEN "ok" ELSE IF SignedOutcome(o) THEN "rl" ELSE "other"

(***************************************************************************)
(* Response texts and JSON.parse.  A well-formed text parses to the        *)
(* document it holds; any other text makes JSON.parse throw a SyntaxError, *)
(* whose message quotes the text or not, as the engine does (echo).        *)
(***************************************************************************)
ParsedDoc ==
    ("text:v" :> "v") @@ ("text:score" :> "score") @@ ("text:zones" :> "zones")
    @@ ("text:route" :> "route") @@ ("text:trend" :> "trend")
    @@ ("text:scoreHigh" :> "scoreHigh") @@ ("text:scorePartial" :> "scorePartial")

\* The numeric fields of a SafetyScore (types.ts).
ScoreFields == {"total", "lighting", "safetyHistory", "crowdActivity"}

\* The numeric fields the documents hold: "score" is a well-formed score,
\* "scoreHigh" carries a total above 100, "scorePartial" lacks crowdActivity;
\* the arrays, the route object and null hold none of the fields.
DocFields ==
    ("score" :> [f \in ScoreFields |-> IF f = "total" THEN 64 ELSE 70])
    @@ ("scoreHigh" :> [f \in ScoreFields |-> IF f = "total" THEN 150 ELSE 70])
    @@ ("scorePartial" :> [f \in ScoreFields \ {"crowdActivity"} |-> 70])
    @@ ("fallbackScore" :>
          ("total" :> 82) @@ ("lighting" :> 85) @@ ("safetyHistory" :> 90)
          @@ ("crowdActivity" :> 75))
    @@ ("defaultScore" :>
          ("total" :> 82) @@ ("lighting" :> 85) @@ ("safetyHistory" :> 90)
          @@ ("crowdActivity" :> 75))

FieldsOf(doc) == IF doc \in DOMAIN DocFields THEN DocFields[doc] ELSE <<>>

JSONparse(text, echo) ==
    IF text \in DOMAIN ParsedDoc
    THEN Ok(ParsedDoc[text])
    ELSE IF echo /\ text = "text:quota" THEN Fail(TRUE, MsgSyntaxEcho)
    ELSE Fail(TRUE, MsgSyntax)

\* The fallback of analyzeRouteSafety: total 82, lighting 85, ...
FallbackScore == "fallbackScore"

\* The text a stage's request is answered with when the answer is well-formed.
StageText ==
    ("op" :> "text:v") @@ ("score" :> "text:score") @@ ("zones" :> "text:zones")
    @@ ("route" :> "text:route") @@ ("trend" :> "text:trend")

\* ai.models.generateContent(...) as the wrapped operation: the reply as it is.
generateContentFn(reply) ==
    IF reply.rejected THEN Fail(reply.hasMessage, reply.message) ELSE Ok(reply.text)

\* analyzeRouteSafety's operation: a text that does not parse gives the fallback.
analyzeRouteSafetyFn(reply, echo) ==
    IF reply.rejected THEN Fail(reply.hasMessage, reply.message)
    ELSE IF JSONparse(reply.text, echo).ok
         THEN Ok(JSONparse(reply.text, echo).value)
         ELSE Ok(FallbackScore)

\* The operation of generateSafeRoute, getRiskTrend and getThreatZones:
\* return JSON.parse(response.text.trim()), whose failure is the operation's.
parsingStageFn(reply, echo) ==
    IF reply.rejected THEN Fail(reply.hasMessage, reply.message)
    ELSE JSONparse(reply.text, echo)

(***************************************************************************)
(* withRetry.  The service's (part_001) and the script's (part_000) differ *)
(* in the default budget and in the jitter added to a wait.                *)
(***************************************************************************)
Variants == {"service", "script"}

\* error?.message?.toLowerCase() || ""
errorMsg(error) == IF error.hasMessage THEN toLowerCase(error.message) ELSE <<>>

isRateLimitCaseSensitive(error) ==
    LET m == IF error.hasMessage THEN error.message ELSE <<>>
    IN includes(m, Str429) \/ includes(m, StrQuota) \/ includes(m, StrExhausted)

isRateLimitEveryFailure(error) == TRUE

\* errorMsg.includes('429') || errorMsg.includes('quota') || errorMsg.includes('exhausted')
isRateLimit(error) ==
    \/ includes(errorMsg(error), Str429)
    \/ includes(errorMsg(error), StrQuota)
    \/ includes(errorMsg(error), StrExhausted)

JitterValuesUpToBound(variant) == {0, JitterBound}

\* Math.random() * 1000, at the ends of the interval [0, 1000).
JitterValues(variant) ==
    IF variant = "service" THEN {0, JitterBound - 1} ELSE {0}

tripleDelay(delay) == delay * 3

constantDelay(delay) == delay

\* delay * 2, the delay handed to the recursive call
nextDelay(delay) == delay * 2

retryAllowedOneMore(retries) == retries >= 0

\* retries > 0
retryAllowed(retries) == retries > 0

throwWrapped(error) == [error EXCEPT !.hasMessage = TRUE, !.message = MsgNetwork]

\* throw error
thrownError(error) == error

IdleFrame ==
    [pc |-> "idle", variant |-> "service", retries0 |-> 0, delay0 |-> 0,
     retries |-> 0, delay |-> 0, attempts |-> 0, waits |-> <<>>,
     history |-> <<>>, opError |-> NoError, thrown |-> NoError, value |-> "none"]

\* A call withRetry(fn, retries, delay): the first fn() is invoked at once.
CallFrame(variant, retries, delay) ==
    [pc |-> "calling", variant |-> variant, retries0 |-> retries, delay0 |-> delay,
     retries |-> retries, delay |-> delay, attempts |-> 1, waits |-> <<>>,
     history |-> <<>>, opError |-> NoError, thrown |-> NoError, value |-> "none"]

\* fn() resolved: return await fn()
ReturnFrame(f, o) ==
    [f EXCEPT !.pc = "returned", !.value = o.value,
              !.history = Append(f.history, OutcomeKind(o))]

CatchFrameNoWait(f, o, jitter) ==
    LET error == Failure(f.attempts, o.hasMessage, o.message)
        g == [f EXCEPT !.history = Append(f.history, OutcomeKind(o)),
                       !.opError = error]
    IN IF isRateLimit(error) /\ retryAllowed(f.retries)
       THEN [g EXCEPT !.pc = "waiting"]
       ELSE [g EXCEPT !.pc = "thrown", !.thrown = thrownError(error)]

\* fn() rejected: the catch block, up to the await of the backoff timer or
\* to the throw.
CatchFrame(f, o, jitter) ==
    LET error == Failure(f.attempts, o.hasMessage, o.message)
        g == [f EXCEPT !.history = Append(f.history, OutcomeKind(o)),
                       !.opError = error]
    IN IF isRateLimit(error) /\ retryAllowed(f.retries)
       THEN [g EXCEPT !.pc = "waiting", !.waits = Append(f.waits, f.delay + jitter)]
       ELSE [g EXCEPT !.pc = "thrown", !.thrown = thrownError(error)]

RetryFrameWaitsForever(f) == f

\* The backoff timer fired: return withRetry(fn, retries - 1, delay * 2),
\* which invokes fn() again.
RetryFrame(f) ==
    [f EXCEPT !.pc = "calling", !.retries = f.retries - 1,
              !.delay = nextDelay(f.delay), !.attempts = f.attempts + 1]

(***************************************************************************)
(* The map.  A layer of the Leaflet map is a marker, a polyline or a       *)
(* circle; id is the identity of the layer object, by which the handles    *)
(* refer to it.  Coordinates are rounded to whole degrees.                 *)
(***************************************************************************)
\* [40.7484, -74.0010], [40.7580, -73.9855] and two more points
Chelsea == <<40, -74>>

Midtown == <<41, -73>>

Hudson == <<40, -75>>

Flatiron == <<41, -74>>

\* A destination that is not set (null or undefined).
NoPlace == <<>>

\* The points of the route documents: RouteData.points of the application,
\* JSON.parse(...).points of the script.
PointsData ==
    ("route" :> <<Chelsea, Flatiron, Midtown>>)
    @@ ("route.points" :> <<Chelsea, Flatiron, Midtown>>)

PointsOfRoute(r) == IF r \in DOMAIN PointsData THEN PointsData[r] ELSE <<>>

\* The zones of the zone documents.
ZonesData ==
    ("[]" :> <<>>)
    @@ ("zones" :> << [at |-> Flatiron, radius |-> 300, intensity |-> "High"],
                      [at |-> Midtown, radius |-> 250, intensity |-> "Medium"],
                      [at |-> Hudson, radius |-> 200, intensity |-> "Low"] >>)
    @@ ("zone" :> << [at |-> Hudson, radius |-> 200, intensity |-> "Medium"] >>)

ZonesOf(z) == IF z \in DOMAIN ZonesData THEN ZonesData[z] ELSE <<>>

Layer(id, kind, geom, radius, style) ==
    [id |-> id, kind |-> kind, geom |-> geom, radius |-> radius, style |-> style]

\* No map yet and no handle (null is 0); made counts the markers created.
NoView ==
    [map |-> FALSE, marker |-> 0, route |-> 0, overlays |-> <<>>,
     layers |-> {}, made |-> 0]

SeqRange(q) == {q[i] : i \in 1..Len(q)}

\* The identities in use: of the layers on the map and of the handles held.
Ids(v) == {l.id : l \in v.layers} \cup {v.marker, v.route} \cup SeqRange(v.overlays)

\* The identity of a newly created layer object: one not in use.
FreshId(v) ==
    CHOOSE n \in 1..(Cardinality(Ids(v)) + 1) :
        n \notin Ids(v) /\ \A m \in 1..(n - 1) : m \in Ids(v)

\* layer.addTo(map)
addTo(v, layer) == [v EXCEPT !.layers = @ \cup {layer}]

\* map.removeLayer(handle)
removeLayer(v, id) == [v EXCEPT !.layers = {l \in @ : l.id # id}]

\* marker.setLatLng(latlng)
setLatLng(v, id, at) ==
    [v EXCEPT !.layers = {IF l.id = id THEN [l EXCEPT !.geom = <<at>>] ELSE l : l \in @}]

Made(v) == IF v.made < MaxMade THEN v.made + 1 ELSE v.made

RECURSIVE removeLayers(_, _)
\* handles.forEach(layer => map.removeLayer(layer))
removeLayers(v, handles) ==
    IF handles = <<>> THEN v
    ELSE removeLayers(removeLayer(v, Head(handles)), Tail(handles))

(***************************************************************************)
(* MapComponent's effect (part_000, lines 31-102).                         *)
(***************************************************************************)
\* The props App passes at its first render; Leaflet is loaded or not.
AppProps ==
    [mounted |-> FALSE, leaflet |-> TRUE, center |-> Chelsea, destination |-> Midtown,
     routePoints |-> <<>>, threatZones |-> <<>>, showThreats |-> TRUE,
     isDistress |-> FALSE]

\* The marker's icon and the line's colour and dash pattern.
userIcon(isDistress) == IF isDistress THEN "icon:red ping" ELSE "icon:pink pulse"

routeStyle(isDistress) == IF isDistress THEN "#ef4444 dash 1, 10" ELSE "#ff007f solid"

zoneColorTwoTiers(zone) == IF zone.intensity = "High" THEN "#ef4444" ELSE "#f59e0b"

zoneColor(zone) ==
    IF zone.intensity = "High" THEN "#ef4444"
    ELSE IF zone.intensity = "Medium" THEN "#f59e0b" ELSE "#3b82f6"

\* leafletMap.current = L.map(...) when there is none
createMap(v) == [v EXCEPT !.map = TRUE]

moveMarkerByRecreation(v, pr) ==
    LET w == removeLayer(v, v.marker)
        id == FreshId(w)
    IN [addTo(w, Layer(id, "marker", <<pr.center>>, 0, userIcon(pr.isDistress)))
          EXCEPT !.marker = id, !.made = Made(v)]

\* userMarkerRef.current.setLatLng(center)
moveMarker(v, pr) == setLatLng(v, v.marker, pr.center)

\* userMarkerRef.current = L.marker(center, { icon: userIcon }).addTo(map)
createMarker(v, pr) ==
    LET id == FreshId(v)
    IN [addTo(v, Layer(id, "marker", <<pr.center>>, 0, userIcon(pr.isDistress)))
          EXCEPT !.marker = id, !.made = Made(v)]

placeMarker(v, pr) == IF v.marker # 0 THEN moveMarker(v, pr) ELSE createMarker(v, pr)

clearRouteForgotten(v) == v

\* if (routeLayerRef.current) map.removeLayer(routeLayerRef.current)
clearRoute(v) == IF v.route # 0 THEN removeLayer(v, v.route) ELSE v

effectivePointsFallbackReversed(pr) ==
    IF Len(pr.routePoints) > 0 THEN pr.routePoints
    ELSE IF pr.destination # NoPlace THEN <<pr.destination, pr.center>> ELSE <<>>

effectivePointsDistressNone(pr) ==
    IF pr.isDistress THEN <<>>
    ELSE IF Len(pr.routePoints) > 0 THEN pr.routePoints
    ELSE IF pr.destination # NoPlace THEN <<pr.center, pr.destination>> ELSE <<>>

\* routePoints.length > 0 ? routePoints : (destination ? [center, destination] : [])
effectivePoints(pr) ==
    IF Len(pr.routePoints) > 0 THEN pr.routePoints
    ELSE IF pr.destination # NoPlace THEN <<pr.center, pr.destination>> ELSE <<>>

\* The route line: the old one removed, a new one when there are points.
drawRoute(v, pr) ==
    LET w == clearRoute(v)
        points == effectivePoints(pr)
        id == FreshId(w)
    IN IF Len(points) > 0
       THEN [addTo(w, Layer(id, "polyline", points, 0, routeStyle(pr.isDistress)))
               EXCEPT !.route = id]
       ELSE w

clearThreatsForgotten(v) == [v EXCEPT !.overlays = <<>>]

\* threatLayersRef.current.forEach(layer => map.removeLayer(layer)); ... = []
clearThreats(v) == [removeLayers(v, v.overlays) EXCEPT !.overlays = <<>>]

RECURSIVE addCircles(_, _)
\* threatZones.forEach(zone => { ... threatLayersRef.current.push(circle) })
addCircles(v, zones) ==
    IF zones = <<>> THEN v
    ELSE LET id == FreshId(v)
             zone == Head(zones)
         IN addCircles([addTo(v, Layer(id, "circle", <<zone.at>>, zone.radius, zoneColor(zone)))
                          EXCEPT !.overlays = Append(@, id)],
                       Tail(zones))

drawThreatsWhateverShown(v, pr) == addCircles(clearThreats(v), pr.threatZones)

\* The overlays block: the removals, then if (showThreats) the circles.
drawThreats(v, pr) ==
    IF pr.showThreats THEN addCircles(clearThreats(v), pr.threatZones) ELSE clearThreats(v)

\* The effect: nothing without Leaflet; else the map when there is none,
\* then the marker, the route line and the overlays.
MapEffect(v, pr) ==
    IF ~pr.leaflet THEN v
    ELSE drawThreats(drawRoute(placeMarker(createMap(v), pr), pr), pr)

(***************************************************************************)
(* The script's updateMap (part_000, lines 261-296).                       *)
(***************************************************************************)
ScriptPrograms == {"script", "mapscript", "rerun", "fullscript"}

scriptIcon(isSOSActive) == IF isSOSActive THEN "pulse bg-red-600" ELSE "pulse"

scriptRouteColor(isSOSActive) == IF isSOSActive THEN "#ef4444" ELSE "#ff007f"

scriptZoneColor(zone) == IF zone.intensity = "High" THEN "#ef4444" ELSE "#f59e0b"

\* if (state.safeRoute): null and undefined are not drawn
Truthy(x) == x \notin {"null", "undefined"}

RECURSIVE scriptCircles(_, _)
scriptCircles(v, zones) ==
    IF zones = <<>> THEN v
    ELSE LET id == FreshId(v)
             zone == Head(zones)
         IN scriptCircles([addTo(v, Layer(id, "circle", <<zone.at>>, zone.radius, scriptZoneColor(zone)))
                             EXCEPT !.overlays = Append(@, id)],
                          Tail(zones))

scriptClearKeepsOverlays(v) ==
    LET a == IF v.marker # 0 THEN removeLayer(v, v.marker) ELSE v
        b == IF a.route # 0 THEN removeLayer(a, a.route) ELSE a
    IN [b EXCEPT !.overlays = <<>>]

\* The three removals and threatOverlays = []
scriptClear(v) ==
    LET a == IF v.marker # 0 THEN removeLayer(v, v.marker) ELSE v
        b == IF a.route # 0 THEN removeLayer(a, a.route) ELSE a
    IN [removeLayers(b, b.overlays) EXCEPT !.overlays = <<>>]

scriptMarker(v, s) ==
    LET id == FreshId(v)
    IN [addTo(v, Layer(id, "marker", <<s.currentLocation>>, 0, scriptIcon(s.isSOSActive)))
          EXCEPT !.marker = id, !.made = Made(v)]

scriptRouteSkipped(v, s) == v

scriptRoute(v, s) ==
    LET id == FreshId(v)
    IN IF Truthy(s.safeRoute)
       THEN [addTo(v, Layer(id, "polyline", PointsOfRoute(s.safeRoute), 0,
                            scriptRouteColor(s.isSOSActive)))
               EXCEPT !.route = id]
       ELSE v

updateMapWithoutMap(v, s) ==
    scriptCircles(scriptRoute(scriptMarker(scriptClear(v), s), s), ZonesOf(s.threatZones))

updateMap(v, s) ==
    IF ~v.map THEN v
    ELSE scriptCircles(scriptRoute(scriptMarker(scriptClear(v), s), s), ZonesOf(s.threatZones))

(***************************************************************************)
(* State.                                                                  *)
(***************************************************************************)
VARIABLES
    program,    \* which program, or which part of one, runs: the harness
                \* around withRetry, "app" and "script" (the orchestrators),
                \* "rerun" (the script's overlapping runs), "component" and
                \* "mapscript" (the map views), "fullapp" and "fullscript"
                \* (orchestrator, chat and SOS switch together)
    exec,       \* the withRetry call each process has in progress; the harness
                \* keeps the call that ended
    inflight,   \* the requests the inference service has not answered yet
    orch,       \* each orchestration run: where it is, the stages it has begun
                \* and the inter-stage delays it has waited for
    app,        \* the React application's state (App.tsx, useState)
    st,         \* the script's state object (part_000, let state)
    props,      \* MapComponent's props at its latest render, and whether
                \* the component is mounted and Leaflet (window.L) is loaded
    view,       \* the Leaflet map and the handles kept to its layers
                \* (MapComponent's refs, or the script's map variables)
    chat,       \* the chat: App's chatInstance ref, the sends that await
                \* their response, and the history of the sends
    wrote       \* for each field of the script's state, the run whose stage
                \* wrote it last and the document it wrote (kept for the
                \* program "rerun")

vars == <<program, exec, inflight, orch, app, st, props, view, chat, wrote>>

Harness == <<"harness", 0>>

InitRun == <<"init", 0>>

FetchRun(i) == <<"fetch", i>>

FetchRuns == {FetchRun(i) : i \in 1..MaxRuns}

Procs == {Harness, InitRun} \cup FetchRuns

\* The order of the stages of App's init.
InitStagesRouteFirst == <<"score", "route", "zones", "trend">>

InitStages == <<"score", "zones", "route", "trend">>

\* The order of the stages of fetchEnvironmentAnalysis.
FetchStages == <<"score", "route", "zones">>

Stages(p) == IF p = InitRun THEN InitStages ELSE FetchStages

CurrentStage(p) == IF p = Harness THEN "op" ELSE Stages(p)[orch[p].stage]

\* failed is the stage whose failure ended the run; endedBy is what ended it:
\* "success", a failure withRetry gave up on with the rate-limit signature
\* ("budget") or without it ("failure"), or a text that did not parse ("parse").
\* For a run of init, text is the text of the response its latest resolved
\* stage got, and outcomes and backoffs are the outcomes of that stage's
\* attempts and the number of its backoff waits (calls of more than two
\* attempts are not told apart).
IdleRun ==
    [pc |-> "idle", stage |-> 0, begun |-> <<>>, delays |-> <<>>,
     failed |-> "none", endedBy |-> "none", text |-> "none",
     outcomes |-> <<>>, backoffs |-> 0]

\* The texts a stage may be answered with besides its well-formed one: a
\* text that is not JSON and, for the score stage, JSON texts of another shape.
OtherTexts(stage) ==
    IF stage = "score"
    THEN {"text:garbage", "text:scoreHigh", "text:scorePartial"}
    ELSE {"text:garbage"}

\* What ended a run whose stage call threw error.
ThrownBy(error) ==
    IF SignedOutcome(Fail(error.hasMessage, error.message)) THEN "budget" ELSE "failure"

\* The first entry of the script's transcript.
ScriptGreeting ==
    "SafeRoute Sentinel online. Analyzing local lighting grids and witness density."

\* useState(...) of App.tsx
AppInitial ==
    [safetyScore |-> "null", threatZones |-> "[]", riskTrend |-> "[]",
     safeRoute |-> "null", isLoading |-> FALSE, isRateLimited |-> FALSE,
     isSOSActive |-> FALSE, chatMessages |-> <<>>]

\* let state = {...} of the script
ScriptInitial ==
    [role |-> "null", isSOSActive |-> FALSE, isLoading |-> FALSE,
     currentLocation |-> Chelsea, destination |-> Midtown,
     safetyScore |-> "defaultScore", threatZones |-> "[]", safeRoute |-> "null",
     messages |-> <<[role |-> "model", text |-> ScriptGreeting]>>]

\* No send yet: chatInstance.current is null (session 0) and the chat input
\* (App's chatInput, the value of the script's #chat-query) is empty.
\* created counts the calls of createSafetyChat, issued the sends with a
\* text, pending is the sends that await their response, origin[k] is the
\* send entry k of the transcript belongs to (0: none), replies[n] is the
\* reply send n got, and used is the sessions the sends were made through.
NoChat ==
    [session |-> 0, created |-> 0, issued |-> 0, pending |-> {},
     origin |-> <<>>, replies |-> <<>>, used |-> {}, input |-> <<>>]

NoWrite == [run |-> <<"none", 0>>, value |-> "none"]

NoWrites == [stage \in {"score", "route", "zones"} |-> NoWrite]

\* The initial delays the harness passes.
HarnessDelays == {0, 500, 1000, DefaultDelay}

\* The replies the service may give to the request in flight of process p.
\* Where the orchestrator is followed together with the chat and the SOS
\* switch, a stage's request is answered well or fails for good.
Replies(p) ==
    IF p = Harness
    THEN {Reject(TRUE, m) : m \in SignedMessages \cup UnsignedMessages}
         \cup {Reject(FALSE, <<>>), Resolve("text:v")}
    ELSE IF program \in {"fullapp", "fullscript"}
    THEN {Reject(TRUE, MsgNetwork), Resolve(StageText[CurrentStage(p)])}
    ELSE IF p = InitRun
    THEN {Reject(TRUE, m) : m \in {MsgHttp429, MsgQuota, MsgNetwork}}
         \cup {Resolve(t) : t \in {StageText[CurrentStage(p)], "text:quota"}
                                    \cup OtherTexts(CurrentStage(p))}
    ELSE {Reject(TRUE, m) : m \in {MsgHttp429, MsgNetwork}}
         \cup {Resolve(t) : t \in {StageText[CurrentStage(p)]}
                                    \cup (OtherTexts(CurrentStage(p)) \ {"text:scorePartial"})}

\* Whether the engine's SyntaxError quotes the text: a choice only for a
\* reply whose text does not parse.
EchoChoices(reply) ==
    IF reply.rejected \/ reply.text \in DOMAIN ParsedDoc THEN {FALSE} ELSE BOOLEAN

\* The outcome of the operation process p wraps, for a reply.
FnOutcome(p, reply, echo) ==
    IF p = InitRun
    THEN IF CurrentStage(p) = "score"
         THEN analyzeRouteSafetyFn(reply, echo)
         ELSE parsingStageFn(reply, echo)
    ELSE generateContentFn(reply)

Request(p, n) == [proc |-> p, stage |-> CurrentStage(p), attempt |-> n]

(***************************************************************************)
(* withRetry's steps for the call of process p: the settling of fn() when  *)
(* the caller's continuation changes nothing, and the backoff timer.       *)
(***************************************************************************)
FnResolves(p) ==
    /\ exec[p].pc = "calling"
    /\ \E reply \in Replies(p) : \E echo \in EchoChoices(reply) :
          /\ FnOutcome(p, reply, echo).ok
          /\ exec' = [exec EXCEPT ![p] = ReturnFrame(exec[p], FnOutcome(p, reply, echo))]
    /\ inflight' = inflight \ {Request(p, exec[p].attempts)}
    /\ UNCHANGED <<program, chat, wrote, props, view, orch, app, st>>

FnRejects(p) ==
    /\ exec[p].pc = "calling"
    /\ \E reply \in Replies(p) : \E echo \in EchoChoices(reply), j \in JitterValues(exec[p].variant) :
          /\ ~FnOutcome(p, reply, echo).ok
          /\ exec' = [exec EXCEPT ![p] = CatchFrame(exec[p], FnOutcome(p, reply, echo), j)]
    /\ inflight' = inflight \ {Request(p, exec[p].attempts)}
    /\ UNCHANGED <<program, chat, wrote, props, view, orch, app, st>>

BackoffElapses(p) ==
    /\ exec[p].pc = "waiting"
    /\ exec' = [exec EXCEPT ![p] = RetryFrame(exec[p])]
    /\ inflight' = inflight \cup {Request(p, exec[p].attempts + 1)}
    /\ UNCHANGED <<program, chat, wrote, props, view, orch, app, st>>

(***************************************************************************)
(* The executor on its own: one withRetry call of either variant, with any *)
(* budget and initial delay, around an operation with any outcomes.        *)
(***************************************************************************)
HarnessCall ==
    /\ program = "harness"
    /\ exec[Harness].pc = "idle"
    /\ \E v \in Variants, r \in 0..MaxRetries, d \in HarnessDelays :
          exec' = [exec EXCEPT ![Harness] = CallFrame(v, r, d)]
    /\ inflight' = inflight \cup {Request(Harness, 1)}
    /\ UNCHANGED <<program, chat, wrote, props, view, orch, app, st>>

BaseInit ==
    /\ chat = NoChat
    /\ wrote = NoWrites
    /\ exec = [p \in Procs |-> IdleFrame]
    /\ inflight = {}
    /\ orch = [p \in Procs |-> IdleRun]
    /\ app = AppInitial
    /\ st = ScriptInitial
    /\ props = AppProps
    /\ view = NoView

RetryInit == program = "harness" /\ BaseInit

RetryNext ==
    \/ HarnessCall
    \/ FnResolves(Harness)
    \/ FnRejects(Harness)
    \/ BackoffElapses(Harness)

SpecRetry == RetryInit /\ [][RetryNext]_vars

(***************************************************************************)
(* App's init effect (App.tsx, useEffect with no dependencies: one run).   *)
(***************************************************************************)
\* What includes('429') of the catch block sees: the message as it is.
initSees429(error) == error.hasMessage /\ includes(error.message, Str429)

initFinallyKeepsLoading(a) == a

initFinallyResets(a) ==
    [a EXCEPT !.isLoading = FALSE, !.safetyScore = "null", !.threatZones = "[]",
              !.safeRoute = "null", !.riskTrend = "[]"]

\* finally { setIsLoading(false) }
initFinally(a) == [a EXCEPT !.isLoading = FALSE]

\* setSafetyScore / setThreatZones / setSafeRoute / setRiskTrend
AppWrite(a, stage, v) ==
    CASE stage = "score" -> [a EXCEPT !.safetyScore = v]
      [] stage = "zones" -> [a EXCEPT !.threatZones = v]
      [] stage = "route" -> [a EXCEPT !.safeRoute = v]
      [] stage = "trend" -> [a EXCEPT !.riskTrend = v]

AwaitStageDelaySkipped(o, ms) == [o EXCEPT !.pc = "delay"]

\* await new Promise(r => setTimeout(r, ms)) between two stages
AwaitStageDelay(o, ms) == [o EXCEPT !.pc = "delay", !.delays = Append(@, ms)]

\* The run ended: by success, or by the failure of stage failed.
EndRun(o, failed, endedBy) ==
    [o EXCEPT !.pc = "done", !.failed = failed, !.endedBy = endedBy]

\* The outcomes of the attempts of a call that resolved and the number of
\* its backoff waits, as the run records them.
OutcomesOf(f) == IF Len(f.history) > 1 THEN <<"many">> ELSE Append(f.history, "ok")

BackoffsOf(f) == IF Len(f.waits) > 2 THEN 2 ELSE Len(f.waits)

\* The stage that follows a stage that resolved.
BeginStage(o, stages) ==
    [o EXCEPT !.pc = "stage", !.stage = o.stage + 1,
              !.begun = Append(o.begun, stages[o.stage + 1])]

\* init(): setIsLoading(true), setIsRateLimited(false) and the first request
\* of analyzeRouteSafety, issued before init first suspends.
InitStart ==
    /\ program \in {"app", "fullapp"}
    /\ orch[InitRun].pc = "idle"
    /\ app' = [app EXCEPT !.isLoading = TRUE, !.isRateLimited = FALSE]
    /\ orch' = [orch EXCEPT ![InitRun] = BeginStage(orch[InitRun], InitStages)]
    /\ exec' = [exec EXCEPT ![InitRun] =
                   CallFrame("service", ServiceDefaultRetries, DefaultDelay)]
    /\ inflight' = inflight \cup
          {[proc |-> InitRun, stage |-> InitStages[1], attempt |-> 1]}
    /\ UNCHANGED <<program, chat, wrote, props, view, st>>

\* The stage's operation resolved: withRetry returns, init runs the stage's
\* setter and awaits the inter-stage timer or, after the last stage, runs
\* the finally block.
InitStageResolves ==
    /\ orch[InitRun].pc = "stage"
    /\ exec[InitRun].pc = "calling"
    /\ \E reply \in Replies(InitRun) : \E echo \in EchoChoices(reply) :
          LET o == FnOutcome(InitRun, reply, echo)
              last == orch[InitRun].stage = Len(InitStages)
              written == AppWrite(app, CurrentStage(InitRun), o.value)
              seen == [orch[InitRun] EXCEPT
                         !.text = reply.text,
                         !.outcomes = OutcomesOf(exec[InitRun]),
                         !.backoffs = BackoffsOf(exec[InitRun])]
          IN /\ o.ok
             /\ exec' = [exec EXCEPT ![InitRun] = IdleFrame]
             /\ app' = IF last THEN initFinally(written) ELSE written
             /\ orch' = [orch EXCEPT ![InitRun] =
                           IF last THEN EndRun(seen, "none", "success")
                           ELSE AwaitStageDelay(seen, InitStageDelay)]
    /\ inflight' = inflight \ {Request(InitRun, exec[InitRun].attempts)}
    /\ UNCHANGED <<program, chat, wrote, props, view, st>>

\* The stage's operation rejected: withRetry's catch block, which awaits the
\* backoff timer or throws; when it throws, init's catch and finally blocks.
InitStageRejects ==
    /\ orch[InitRun].pc = "stage"
    /\ exec[InitRun].pc = "calling"
    /\ \E reply \in Replies(InitRun) : \E echo \in EchoChoices(reply), j \in JitterValues("service") :
          LET o == FnOutcome(InitRun, reply, echo)
              f == CatchFrame(exec[InitRun], o, j)
          IN /\ ~o.ok
             /\ IF f.pc = "thrown"
                THEN /\ exec' = [exec EXCEPT ![InitRun] = IdleFrame]
                     /\ app' = initFinally([app EXCEPT
                                  !.isRateLimited = IF initSees429(f.thrown)
                                                    THEN TRUE ELSE app.isRateLimited])
                     /\ orch' = [orch EXCEPT ![InitRun] =
                                   EndRun(@, CurrentStage(InitRun), ThrownBy(f.thrown))]
                ELSE /\ exec' = [exec EXCEPT ![InitRun] = f]
                     /\ UNCHANGED <<app, orch>>
    /\ inflight' = inflight \ {Request(InitRun, exec[InitRun].attempts)}
    /\ UNCHANGED <<program, chat, wrote, props, view, st>>

\* The inter-stage timer fired: the next stage's first request.
InitDelayElapses ==
    /\ orch[InitRun].pc = "delay"
    /\ orch' = [orch EXCEPT ![InitRun] = BeginStage(orch[InitRun], InitStages)]
    /\ exec' = [exec EXCEPT ![InitRun] =
                   CallFrame("service", ServiceDefaultRetries, DefaultDelay)]
    /\ inflight' = inflight \cup
          {[proc |-> InitRun, stage |-> InitStages[orch[InitRun].stage + 1],
            attempt |-> 1]}
    /\ UNCHANGED <<program, chat, wrote, props, view, app, st>>

(***************************************************************************)
(* The script's fetchEnvironmentAnalysis, started by setRole('user'); a    *)
(* run may be started while earlier runs are in flight.                    *)
(***************************************************************************)
\* JSON.parse(routeRes.text.trim()).points
PointsOf(doc) == IF doc = "route" THEN "route.points" ELSE "undefined"

fetchFinallyKeepsLoading(s) == s

fetchFinallyClearsSOS(s) == [s EXCEPT !.isLoading = FALSE, !.isSOSActive = FALSE]

\* finally { state.isLoading = false; ... }
fetchFinally(s) == [s EXCEPT !.isLoading = FALSE]

ScriptWriteKeepsFirstScore(s, stage, doc) ==
    CASE stage = "score" ->
            IF s.safetyScore = "defaultScore" THEN [s EXCEPT !.safetyScore = doc] ELSE s
      [] stage = "route" -> [s EXCEPT !.safeRoute = PointsOf(doc)]
      [] stage = "zones" -> [s EXCEPT !.threatZones = doc]

\* state.safetyScore = ... / state.safeRoute = ... / state.threatZones = ...
ScriptWrite(s, stage, doc) ==
    CASE stage = "score" -> [s EXCEPT !.safetyScore = doc]
      [] stage = "route" -> [s EXCEPT !.safeRoute = PointsOf(doc)]
      [] stage = "zones" -> [s EXCEPT !.threatZones = doc]

\* setRole('user'): state.role = role, then fetchEnvironmentAnalysis() up to
\* its first await: state.isLoading = true and the first request.
SetRoleUser(i) ==
    /\ program \in ScriptPrograms
    /\ orch[FetchRun(i)].pc = "idle"
    /\ \A k \in 1..(i - 1) : orch[FetchRun(k)].pc # "idle"
    /\ st' = [st EXCEPT !.role = "user", !.isLoading = TRUE]
    /\ orch' = [orch EXCEPT ![FetchRun(i)] = BeginStage(orch[FetchRun(i)], FetchStages)]
    /\ exec' = [exec EXCEPT ![FetchRun(i)] =
                   CallFrame("script", ScriptDefaultRetries, DefaultDelay)]
    /\ inflight' = inflight \cup
          {[proc |-> FetchRun(i), stage |-> FetchStages[1], attempt |-> 1]}
    /\ UNCHANGED <<program, chat, wrote, props, view, app>>

\* The stage's request resolved: withRetry returns the response and
\* fetchEnvironmentAnalysis parses its text; the state write and the await of
\* the inter-stage timer or, when the text does not parse or after the last
\* stage, the catch and finally blocks.
FetchStageResolves(p) ==
    /\ orch[p].pc = "stage"
    /\ exec[p].pc = "calling"
    /\ \E reply \in Replies(p) : \E echo \in EchoChoices(reply) :
          LET o == FnOutcome(p, reply, echo)
              stage == CurrentStage(p)
              parsed == JSONparse(o.value, echo)
              written == IF parsed.ok THEN ScriptWrite(st, stage, parsed.value) ELSE st
              over == orch[p].stage = Len(FetchStages) \/ ~parsed.ok
          IN /\ o.ok
             /\ exec' = [exec EXCEPT ![p] = IdleFrame]
             /\ st' = IF over THEN fetchFinally(written) ELSE written
             /\ view' = IF over THEN updateMap(view, fetchFinally(written)) ELSE view
             /\ orch' = [orch EXCEPT ![p] =
                           IF ~parsed.ok THEN EndRun(@, stage, "parse")
                           ELSE IF over THEN EndRun(@, "none", "success")
                           ELSE AwaitStageDelay(@, FetchStageDelay)]
             /\ wrote' = IF program = "rerun" /\ parsed.ok
                         THEN [wrote EXCEPT ![stage] = [run |-> p, value |-> parsed.value]]
                         ELSE wrote
    /\ inflight' = inflight \ {Request(p, exec[p].attempts)}
    /\ UNCHANGED <<program, chat, props, app>>

\* The stage's request rejected: withRetry's catch block, which awaits the
\* backoff timer or throws; when it throws, the catch and finally blocks of
\* fetchEnvironmentAnalysis.
FetchStageRejects(p) ==
    /\ orch[p].pc = "stage"
    /\ exec[p].pc = "calling"
    /\ \E reply \in Replies(p) : \E echo \in EchoChoices(reply), j \in JitterValues("script") :
          LET o == FnOutcome(p, reply, echo)
              f == CatchFrame(exec[p], o, j)
          IN /\ ~o.ok
             /\ IF f.pc = "thrown"
                THEN /\ exec' = [exec EXCEPT ![p] = IdleFrame]
                     /\ st' = fetchFinally(st)
                     /\ view' = updateMap(view, fetchFinally(st))
                     /\ orch' = [orch EXCEPT ![p] =
                                   EndRun(@, CurrentStage(p), ThrownBy(f.thrown))]
                ELSE /\ exec' = [exec EXCEPT ![p] = f]
                     /\ UNCHANGED <<st, orch, view>>
    /\ inflight' = inflight \ {Request(p, exec[p].attempts)}
    /\ UNCHANGED <<program, chat, wrote, props, app>>

\* The inter-stage timer fired: the next stage's first request.
FetchDelayElapses(p) ==
    /\ orch[p].pc = "delay"
    /\ orch' = [orch EXCEPT ![p] = BeginStage(orch[p], FetchStages)]
    /\ exec' = [exec EXCEPT ![p] =
                   CallFrame("script", ScriptDefaultRetries, DefaultDelay)]
    /\ inflight' = inflight \cup
          {[proc |-> p, stage |-> FetchStages[orch[p].stage + 1], attempt |-> 1]}
    /\ UNCHANGED <<program, chat, wrote, props, view, app, st>>

(***************************************************************************)
(* The orchestrators: the application's init run, or the script's runs.    *)
(* The script's runs are followed here while it has no map (initMap is an  *)
(* action of SpecMap), so that the updateMap at the end of a run returns   *)
(* at its first line.                                                      *)
(***************************************************************************)
OrchInit == program \in {"app", "script"} /\ BaseInit

OrchNext ==
    \/ InitStart
    \/ InitStageResolves
    \/ InitStageRejects
    \/ InitDelayElapses
    \/ BackoffElapses(InitRun)
    \/ \E i \in 1..MaxRuns : SetRoleUser(i)
    \/ \E p \in FetchRuns :
          \/ FetchStageResolves(p)
          \/ FetchStageRejects(p)
          \/ FetchDelayElapses(p)
          \/ BackoffElapses(p)

SpecOrch == OrchInit /\ [][OrchNext]_vars

(***************************************************************************)
(* The orchestrators under fair scheduling, for the application's run and  *)
(* for a run of the script with one re-triggered run.  OrchSystemStep is   *)
(* the steps the program takes by itself: the mount effect that calls      *)
(* init, the settling of a request and the firing of a timer.  A request   *)
(* that is outstanding is eventually settled and a timer that is set       *)
(* eventually fires; nothing obliges the user to call setRole.             *)
(***************************************************************************)
FairRuns == {InitRun, FetchRun(1), FetchRun(2)}

OrchSystemStep ==
    \/ InitStart
    \/ InitStageResolves
    \/ InitStageRejects
    \/ InitDelayElapses
    \/ BackoffElapses(InitRun)
    \/ \E p \in FairRuns \ {InitRun} :
          \/ FetchStageResolves(p)
          \/ FetchStageRejects(p)
          \/ FetchDelayElapses(p)
          \/ BackoffElapses(p)

OrchFairNext ==
    \/ OrchSystemStep
    \/ SetRoleUser(1)
    \/ SetRoleUser(2)

SpecOrchFair == OrchInit /\ [][OrchFairNext]_vars /\ WF_vars(OrchSystemStep)

(***************************************************************************)
(* MapComponent under React: the effect runs after the first render and    *)
(* after every render in which a dependency changed; routePoints and       *)
(* threatZones are compared by identity, so that a render with equal       *)
(* values runs it again.                                                   *)
(***************************************************************************)
\* The values a render may pass.
Centers == {Chelsea, Hudson}

Destinations == {NoPlace, Midtown}

RoutePointsValues == {<<>>, PointsData["route"]}

ThreatZonesValues == {ZonesData[z] : z \in DOMAIN ZonesData}

PropsValues ==
    [center : Centers, destination : Destinations, routePoints : RoutePointsValues,
     threatZones : ThreatZonesValues, showThreats : BOOLEAN, isDistress : BOOLEAN]

WithProps(pr, new) ==
    [pr EXCEPT !.center = new.center, !.destination = new.destination,
               !.routePoints = new.routePoints, !.threatZones = new.threatZones,
               !.showThreats = new.showThreats, !.isDistress = new.isDistress]

\* The first render and the effect after it.
Mount ==
    /\ program = "component"
    /\ ~props.mounted
    /\ props' = [props EXCEPT !.mounted = TRUE]
    /\ view' = MapEffect(view, props)
    /\ UNCHANGED <<program, chat, wrote, exec, inflight, orch, app, st>>

\* A later render, with any props, and the effect after it.
Render ==
    /\ program = "component"
    /\ props.mounted
    /\ \E new \in PropsValues :
          /\ props' = WithProps(props, new)
          /\ view' = MapEffect(view, WithProps(props, new))
    /\ UNCHANGED <<program, chat, wrote, exec, inflight, orch, app, st>>

\* The Leaflet script finished loading: window.L is defined from now on.
LeafletLoads ==
    /\ program = "component"
    /\ ~props.leaflet
    /\ props' = [props EXCEPT !.leaflet = TRUE]
    /\ UNCHANGED <<program, chat, wrote, exec, inflight, orch, app, st, view>>

(***************************************************************************)
(* The script's map: initMap, run by the timer render() sets, and          *)
(* triggerSOS; fetchEnvironmentAnalysis calls updateMap when it ends.      *)
(***************************************************************************)
\* setTimeout(() => { if (state.role) initMap(); ... }, 0), when no map exists
ScriptInitMap ==
    /\ program = "mapscript"
    /\ st.role # "null"
    /\ ~view.map
    /\ view' = updateMap([view EXCEPT !.map = TRUE], st)
    /\ UNCHANGED <<program, chat, wrote, exec, inflight, orch, app, st, props>>

\* window.triggerSOS
TriggerSOS ==
    /\ program \in {"mapscript", "fullscript"}
    /\ st.role # "null"
    /\ st' = [st EXCEPT !.isSOSActive = ~@]
    /\ view' = IF view.map THEN updateMap(view, [st EXCEPT !.isSOSActive = ~@]) ELSE view
    /\ UNCHANGED <<program, chat, wrote, exec, inflight, orch, app, props>>

(***************************************************************************)
(* The map views: MapComponent with any sequence of renders, or the script *)
(* with one run of fetchEnvironmentAnalysis, its map and the SOS button.   *)
(***************************************************************************)
MapInit ==
    /\ program \in {"component", "mapscript"}
    /\ chat = NoChat
    /\ wrote = NoWrites
    /\ exec = [p \in Procs |-> IdleFrame]
    /\ inflight = {}
    /\ orch = [p \in Procs |-> IdleRun]
    /\ app = AppInitial
    /\ st = ScriptInitial
    /\ props \in {AppProps, [AppProps EXCEPT !.leaflet = FALSE]}
    /\ program = "mapscript" => props = AppProps
    /\ view = NoView

MapNext ==
    \/ Mount
    \/ Render
    \/ LeafletLoads
    \/ ScriptInitMap
    \/ TriggerSOS
    \/ SetRoleUser(1)
    \/ FetchStageResolves(FetchRun(1))
    \/ FetchStageRejects(FetchRun(1))
    \/ FetchDelayElapses(FetchRun(1))
    \/ BackoffElapses(FetchRun(1))

SpecMap == MapInit /\ [][MapNext]_vars

(***************************************************************************)
(* The script with a run of fetchEnvironmentAnalysis and a second run      *)
(* started by another setRole('user'), before or after the first ended.    *)
(***************************************************************************)
RerunInit == program = "rerun" /\ BaseInit

RerunNext ==
    \/ SetRoleUser(1)
    \/ SetRoleUser(2)
    \/ \E p \in {FetchRun(1), FetchRun(2)} :
          \/ FetchStageResolves(p)
          \/ FetchStageRejects(p)
          \/ FetchDelayElapses(p)
          \/ BackoffElapses(p)

SpecRerun == RerunInit /\ [][RerunNext]_vars

(***************************************************************************)
(* The chat.  A send is what handleSendMessage (App) or handleChat (the    *)
(* script) does up to its await; the settling of the request is the rest.  *)
(* Sends may be made while earlier ones await their response.              *)
(***************************************************************************)
\* The texts the user may have typed.
ChatInputs == {<<>>, <<" ">>, <<"h","i"," ">>}

\* The replies of the service to a chat request.
ChatReplies ==
    {Resolve("text:advice"), Reject(TRUE, MsgHttp429), Reject(TRUE, MsgNetwork),
     Reject(FALSE, <<>>)}

BusyText == "Service busy. I'm still watching your route locally."

WeakText == "Signal weak, but SOS links are active."

SatelliteText == "Satellite link weak. Stick to high-density lighting zones."

ensureSessionEachSend(c) ==
    [c EXCEPT !.session = c.created + 1, !.created = c.created + 1]

\* if (!chatInstance.current) chatInstance.current = createSafetyChat()
ensureSession(c) ==
    IF c.session = 0
    THEN [c EXCEPT !.session = c.created + 1, !.created = c.created + 1]
    ELSE c

\* The send number n is made through session: the input is emptied and the
\* request is outstanding.
issue(c, n, session) ==
    [c EXCEPT !.input = <<>>,
              !.issued = n,
              !.pending = @ \cup {[send |-> n, session |-> session]},
              !.origin = Append(@, n),
              !.replies = Append(@, Resolve("none")),
              !.used = @ \cup {session}]

\* The request of send r was settled with reply.
settle(c, r, reply) ==
    [c EXCEPT !.pending = @ \ {r},
              !.origin = Append(@, r.send),
              !.replies[r.send] = reply]

appFallbackSame(err) == WeakText

\* catch (err): err?.message?.includes('429') ? ... : ...
appFallback(err) ==
    IF err.hasMessage /\ includes(err.message, Str429) THEN BusyText ELSE WeakText

\* catch (e): the text does not depend on e
scriptFallback(err) == SatelliteText

blankOnlyIfEmpty(text) == text = <<>>

\* if (!chatInput.trim()) return; if (!query.trim()) return;
blank(text) == trim(text) = <<>>

\* onChange of the chat input: setChatInput(e.target.value); in the script
\* the user's typing into #chat-query.
TypeChatInput ==
    /\ program \in {"fullapp", "fullscript"}
    /\ program = "fullscript" => st.role # "null"
    /\ \E text \in ChatInputs : chat' = [chat EXCEPT !.input = text]
    /\ UNCHANGED <<program, exec, inflight, orch, app, st, props, view, wrote>>

\* handleSendMessage up to its await.
HandleSendMessage ==
    /\ program = "fullapp"
    /\ chat.issued < MaxSends
    /\ IF blank(chat.input)
       THEN UNCHANGED <<app, chat>>
       ELSE LET c == ensureSession(chat)
            IN /\ app' = [app EXCEPT !.chatMessages =
                              Append(@, [role |-> "user", text |-> chat.input])]
               /\ chat' = issue(c, chat.issued + 1, c.session)
    /\ UNCHANGED <<program, exec, inflight, orch, st, props, view, wrote>>

\* const response = await ...sendMessage(...); setChatMessages(...)
SendMessageResolves ==
    /\ program = "fullapp"
    /\ \E r \in chat.pending, reply \in ChatReplies :
          /\ ~reply.rejected
          /\ app' = [app EXCEPT !.chatMessages =
                        Append(@, [role |-> "model", text |-> reply.text])]
          /\ chat' = settle(chat, r, reply)
    /\ UNCHANGED <<program, exec, inflight, orch, st, props, view, wrote>>

\* The catch block of handleSendMessage.
SendMessageRejects ==
    /\ program = "fullapp"
    /\ \E r \in chat.pending, reply \in ChatReplies :
          /\ reply.rejected
          /\ app' = [app EXCEPT !.chatMessages =
                        Append(@, [role |-> "model", text |-> appFallback(reply)])]
          /\ chat' = settle(chat, r, reply)
    /\ UNCHANGED <<program, exec, inflight, orch, st, props, view, wrote>>

\* The SOS button (setIsSOSActive(true)) and, while the alert is shown, its
\* cancel button (setIsSOSActive(false)).
SetIsSOSActive ==
    /\ program = "fullapp"
    /\ \E b \in BOOLEAN :
          /\ ~b => app.isSOSActive
          /\ app' = [app EXCEPT !.isSOSActive = b]
    /\ UNCHANGED <<program, exec, inflight, orch, st, props, view, chat, wrote>>

\* window.sendMessage and handleChat up to its await; the chat input is
\* on the page once a role is chosen.
HandleChat ==
    /\ program = "fullscript"
    /\ st.role # "null"
    /\ chat.issued < MaxSends
    /\ IF blank(chat.input)
       THEN UNCHANGED <<st, chat>>
       ELSE /\ st' = [st EXCEPT !.messages =
                         Append(@, [role |-> "user", text |-> chat.input])]
            /\ chat' = issue(chat, chat.issued + 1, 0)
    /\ UNCHANGED <<program, exec, inflight, orch, app, props, view, wrote>>

\* const response = await ai.models.generateContent(...); state.messages.push
HandleChatResolves ==
    /\ program = "fullscript"
    /\ \E r \in chat.pending, reply \in ChatReplies :
          /\ ~reply.rejected
          /\ st' = [st EXCEPT !.messages =
                       Append(@, [role |-> "model", text |-> reply.text])]
          /\ chat' = settle(chat, r, reply)
    /\ UNCHANGED <<program, exec, inflight, orch, app, props, view, wrote>>

\* The catch block of handleChat.
HandleChatRejects ==
    /\ program = "fullscript"
    /\ \E r \in chat.pending, reply \in ChatReplies :
          /\ reply.rejected
          /\ st' = [st EXCEPT !.messages =
                       Append(@, [role |-> "model", text |-> scriptFallback(reply)])]
          /\ chat' = settle(chat, r, reply)
    /\ UNCHANGED <<program, exec, inflight, orch, app, props, view, wrote>>

(***************************************************************************)
(* The writers of the application state together: the orchestrator (App's  *)
(* init run, or a run of the script), the chat and the SOS switch.  The    *)
(* script is followed while it has no map.  No request of a stage meets a  *)
(* rate limit here, so that withRetry never waits.                         *)
(***************************************************************************)
StateInit == program \in {"fullapp", "fullscript"} /\ BaseInit

StateNext ==
    \/ InitStart
    \/ InitStageResolves
    \/ InitStageRejects
    \/ InitDelayElapses
    \/ TypeChatInput
    \/ HandleSendMessage
    \/ SendMessageResolves
    \/ SendMessageRejects
    \/ SetIsSOSActive
    \/ SetRoleUser(1)
    \/ FetchStageResolves(FetchRun(1))
    \/ FetchStageRejects(FetchRun(1))
    \/ FetchDelayElapses(FetchRun(1))
    \/ HandleChat
    \/ HandleChatResolves
    \/ HandleChatRejects
    \/ TriggerSOS

SpecState == StateInit /\ [][StateNext]_vars

(***************************************************************************)
(* Helpers of the orchestrators' claims.                                   *)
(***************************************************************************)
Runs == {InitRun} \cup FetchRuns

IsPrefix(s, t) == Len(s) <= Len(t) /\ \A i \in 1..Len(s) : s[i] = t[i]

\* The loading flag of the program a run belongs to.
Loading(p) == IF p = InitRun THEN app.isLoading ELSE st.isLoading

\* The order of the stages the specification gives.
SpecifiedStages == <<"score", "zones", "route", "trend">>

(***************************************************************************)
(* C1.  As claimed: a run in which a stage failed still issues the         *)
(* requests of all later stages; when the route stage of App's init fails  *)
(* with a non-rate-limit failure the route stays null, the risk-trend      *)
(* stage is still executed and loading is false at the end of the run.     *)
(***************************************************************************)
C1_Claimed_FailedStageDoesNotStopRun ==
    /\ \A p \in Runs :
          (orch[p].pc = "done" /\ orch[p].endedBy \in {"failure", "budget"})
             => orch[p].begun = Stages(p)
    /\ (/\ orch[InitRun].pc = "done"
        /\ orch[InitRun].failed = "route"
        /\ orch[InitRun].endedBy = "failure")
          => /\ app.safeRoute = "null"
             /\ \E i \in 1..Len(orch[InitRun].begun) : orch[InitRun].begun[i] = "trend"
             /\ ~app.isLoading

(***************************************************************************)
(* C2.  As claimed: every run, of App's init and of                        *)
(* fetchEnvironmentAnalysis, issues its stage requests in the order safety *)
(* score, threat zones, route, risk trend, and no two stages of one run    *)
(* are outstanding at the same time.                                       *)
(***************************************************************************)
OneStageOutstanding(p) ==
    \A r \in inflight :
        r.proc = p =>
            /\ orch[p].pc = "stage"
            /\ r.stage = orch[p].begun[Len(orch[p].begun)]
            /\ \A q \in inflight : q.proc = p => q = r

RunBegins(p) == orch[p].pc = "idle" /\ orch'[p].pc # "idle"

RunEnds(p) == orch[p].pc # "done" /\ orch'[p].pc = "done"

C3_LoadingTrueAtStartFalseAtEnd ==
    [][\A p \in Runs :
          /\ (\A r \in inflight : r.proc # p) \/ orch[p].pc # "idle"
          /\ RunBegins(p) =>
                /\ Loading(p)'
                /\ [proc |-> p, stage |-> "score", attempt |-> 1] \in inflight'
          /\ RunEnds(p) => ~Loading(p)']_vars

\* A run of App's init ended because the executor exhausted its budget in
\* the zones stage.
C3_Witness ==
    /\ orch[InitRun].pc = "done"
    /\ orch[InitRun].failed = "zones"
    /\ orch[InitRun].endedBy = "budget"
    /\ ~app.isLoading

(***************************************************************************)
(* Helpers of the executor's claims.                                       *)
(***************************************************************************)
RECURSIVE SumSeq(_)
SumSeq(s) == IF s = <<>> THEN 0 ELSE Head(s) + SumSeq(Tail(s))

Min(a, b) == IF a <= b THEN a ELSE b

\* The number of rate-limit failures at the head of a history.  When the
\* budget ran out the history is all rate-limit failures and its length,
\* budget + 1, is a lower bound of the operation's own count, which leaves
\* min(budget, count) the same.
LeadingRateLimits(h) ==
    CHOOSE k \in 0..Len(h) :
        /\ \A i \in 1..k : h[i] = "rl"
        /\ k = Len(h) \/ h[k + 1] # "rl"

Ended(f) == f.pc \in {"returned", "thrown"}

\* initialDelay * 2^(k-1)
BaseWait(f, k) == f.delay0 * (2 ^ (k - 1))

\* delay * (2^retries - 1)
GeometricBound(f) == f.delay0 * ((2 ^ f.retries0) - 1)

(***************************************************************************)
(* C4.  One call of withRetry with budget r invokes the operation at most  *)
(* r + 1 times, whatever the operation's outcomes are.                     *)
(***************************************************************************)
C4_AtMostBudgetPlusOneAttempts ==
    \A p \in Procs : exec[p].attempts <= exec[p].retries0 + 1

\* A call that used its whole budget of at least two retries and gave up.
C4_Witness ==
    /\ exec[Harness].pc = "thrown"
    /\ exec[Harness].retries0 >= 2
    /\ exec[Harness].attempts = exec[Harness].retries0 + 1

(***************************************************************************)
(* C5.  When a call of withRetry with budget r has ended, the number of    *)
(* its retries is min(r, n), n being the number of consecutive rate-limit  *)
(* failures the operation produced before its first success or other      *)
(* failure; a non-rate-limit failure on the first attempt gives exactly    *)
(* one invocation and no backoff wait.                                     *)
(***************************************************************************)
C5_RetriesAreMinOfBudgetAndRateLimits ==
    \A p \in Procs :
        LET f == exec[p] IN
        /\ Ended(f) =>
              f.attempts - 1 = Min(f.retries0, LeadingRateLimits(f.history))
        /\ (Len(f.history) >= 1 /\ f.history[1] = "other") =>
              f.attempts = 1 /\ f.waits = <<>> /\ f.pc = "thrown"

\* A call with budget left that ended after two retries, the operation's
\* third outcome being its first that is not a rate-limit failure.
C5_Witness ==
    /\ Ended(exec[Harness])
    /\ exec[Harness].retries0 > 2
    /\ LeadingRateLimits(exec[Harness].history) = 2
    /\ exec[Harness].attempts = 3

(***************************************************************************)
(* C6.  When withRetry gives up, the failure it raises is the failure the  *)
(* last attempt raised, unchanged and unwrapped.                           *)
(***************************************************************************)
C6_RaisesLastFailureUnchanged ==
    \A p \in Procs :
        exec[p].pc = "thrown" =>
            /\ exec[p].thrown = exec[p].opError
            /\ exec[p].thrown.attempt = exec[p].attempts

\* A call that gave up on its third attempt with the budget exhausted.
C6_Witness ==
    /\ exec[Harness].pc = "thrown"
    /\ exec[Harness].attempts = 3
    /\ exec[Harness].retries = 0
    /\ exec[Harness].thrown.message = MsgQuota

(***************************************************************************)
(* C7.  A failure without the rate-limit signature (no '429', 'quota' or   *)
(* 'exhausted' in its message whatever the case, or no message at all) is  *)
(* followed by no further attempt and no backoff wait: it is the last      *)
(* outcome of the call, which has been given up, also with budget left.    *)
(***************************************************************************)
C7_OnlyRateLimitFailuresRetried ==
    \A p \in Procs :
        LET f == exec[p] IN
        \A i \in 1..Len(f.history) :
            f.history[i] = "other" =>
                /\ i = Len(f.history)
                /\ f.attempts = i
                /\ Len(f.waits) = i - 1
                /\ f.pc = "thrown"

\* A failure without a message ended a call that had retried once and had
\* budget left.
C7_Witness ==
    /\ exec[Harness].pc = "thrown"
    /\ ~exec[Harness].thrown.hasMessage
    /\ exec[Harness].retries > 0
    /\ exec[Harness].attempts = 2

(***************************************************************************)
(* C8.  The wait before the k-th retry is initialDelay * 2^(k-1); the      *)
(* service's withRetry adds a jitter of at least 0 and less than 1000 ms,  *)
(* the script's adds none.                                                 *)
(***************************************************************************)
C8_WaitIsDoubledDelayPlusJitter ==
    \A p \in Procs :
        LET f == exec[p] IN
        \A k \in 1..Len(f.waits) :
            LET jitter == f.waits[k] - BaseWait(f, k) IN
            IF f.variant = "service"
            THEN 0 <= jitter /\ jitter < JitterBound
            ELSE jitter = 0

\* Three waits of the service's executor, the third with a jitter.
C8_Witness ==
    /\ exec[Harness].variant = "service"
    /\ exec[Harness].delay0 = DefaultDelay
    /\ Len(exec[Harness].waits) = 3
    /\ exec[Harness].waits[3] = 4 * DefaultDelay + JitterBound - 1

(***************************************************************************)
(* C9.  As claimed: for every initial delay and every choice of jitter     *)
(* values the waits of one call are strictly increasing.                   *)
(***************************************************************************)
StrictlyIncreasing(s) == \A k \in 1..(Len(s) - 1) : s[k] < s[k + 1]

C9_Original_WaitsStrictlyIncreasing ==
    \A p \in Procs : StrictlyIncreasing(exec[p].waits)

(***************************************************************************)
(* C9, amended.  The waits of one call are strictly increasing for every   *)
(* choice of jitter values when the initial delay is at least 1000 ms in   *)
(* the service's withRetry and positive in the script's; the default delay *)
(* of 2000 ms, which every call site uses, is such a delay.                *)
(***************************************************************************)
C9_WaitsStrictlyIncreasing ==
    \A p \in Procs :
        LET f == exec[p] IN
        (IF f.variant = "service" THEN f.delay0 >= JitterBound ELSE f.delay0 > 0)
            => StrictlyIncreasing(f.waits)

\* Three waits of the service's executor from the smallest such delay, the
\* first with the largest jitter and the second with none.
C9_Witness ==
    /\ exec[Harness].variant = "service"
    /\ exec[Harness].delay0 = JitterBound
    /\ Len(exec[Harness].waits) = 3
    /\ exec[Harness].waits[1] = 2 * JitterBound - 1
    /\ exec[Harness].waits[2] = 2 * JitterBound

(***************************************************************************)
(* C10.  As claimed: the waits of one call never sum to more than          *)
(* delay * (2^retries - 1).                                                *)
(***************************************************************************)
C10_Original_TotalWaitBounded ==
    \A p \in Procs : SumSeq(exec[p].waits) <= GeometricBound(exec[p])

(***************************************************************************)
(* C10, amended.  The waits of one call of the script's withRetry never    *)
(* sum to more than delay * (2^retries - 1); those of the service's never  *)
(* sum to more than that plus the jitter of each wait made, which is less  *)
(* than 1000 ms per retry.                                                 *)
(***************************************************************************)
C10_TotalWaitBounded ==
    \A p \in Procs :
        LET f == exec[p] IN
        /\ Len(f.waits) <= f.retries0
        /\ SumSeq(f.waits) <=
              GeometricBound(f)
              + (IF f.variant = "service"
                 THEN Len(f.waits) * (JitterBound - 1) ELSE 0)

\* The service's executor used its whole budget and its waits sum to more
\* than delay * (2^retries - 1).
C10_Witness ==
    /\ exec[Harness].variant = "service"
    /\ exec[Harness].retries0 >= 2
    /\ Len(exec[Harness].waits) = exec[Harness].retries0
    /\ SumSeq(exec[Harness].waits) > GeometricBound(exec[Harness])

(***************************************************************************)
(* Helpers of the claims about what the stages store.                      *)
(***************************************************************************)
\* The state field a stage writes.
AppField(a, stage) ==
    CASE stage = "score" -> a.safetyScore
      [] stage = "zones" -> a.threatZones
      [] stage = "route" -> a.safeRoute
      [] stage = "trend" -> a.riskTrend

ScriptField(s, stage) ==
    CASE stage = "score" -> s.safetyScore
      [] stage = "route" -> s.safeRoute
      [] stage = "zones" -> s.threatZones

Field(p, stage) == IF p = InitRun THEN AppField(app, stage) ELSE ScriptField(st, stage)

\* Stage number k of run p has resolved and run its state write.
Resolved(p, k) ==
    \/ orch[p].stage > k
    \/ orch[p].stage = k /\ (orch[p].pc = "delay" \/ orch[p].endedBy = "success")

\* The run of init is where scenario B leaves it when the zones stage has
\* resolved: the first attempt met a rate limit and the retry succeeded.
ZonesResolvedOnRetry ==
    /\ orch[InitRun].stage = 2
    /\ orch[InitRun].pc = "delay"
    /\ orch[InitRun].outcomes = <<"rl", "ok">>

(***************************************************************************)
(* C11.  When in a run of App's init the score stage succeeded and the     *)
(* zones stage met a rate limit on its first attempt and succeeded on the  *)
(* retry, exactly one backoff wait preceded the success of the zones       *)
(* stage, the state holds the score and the zones of the response, and no  *)
(* later step of the run changes the score or the zones, so that the final *)
(* state contains both.                                                    *)
(***************************************************************************)
C11_ScenarioB_ScoreAndZonesAfterOneBackoff ==
    [][/\ ZonesResolvedOnRetry' =>
             /\ orch'[InitRun].backoffs = 1
             /\ app'.threatZones = ParsedDoc[orch'[InitRun].text]
             /\ app'.safetyScore # AppInitial.safetyScore
       /\ Resolved(InitRun, 1) => app'.safetyScore = app.safetyScore
       /\ Resolved(InitRun, 2) => app'.threatZones = app.threatZones
      ]_vars

\* Scenario B has run to its end: the route stage, which followed the zones
\* stage that resolved on its retry, failed; the score and the zones are there.
C11_Witness ==
    /\ orch[InitRun].pc = "done"
    /\ orch[InitRun].failed = "route"
    /\ orch[InitRun].outcomes = <<"rl", "ok">>
    /\ orch[InitRun].backoffs = 1
    /\ app.safetyScore = "score"
    /\ app.threatZones = "zones"

(***************************************************************************)
(* C12.  A run issues the first request of a stage after the first only   *)
(* from the await of the inter-stage timer, and each timer it awaited was  *)
(* of the fixed delay (2000 ms in init, 1000 ms in                         *)
(* fetchEnvironmentAnalysis), whatever backoff waits the stages made: one  *)
(* delay per stage that resolved and was followed by another.              *)
(***************************************************************************)
StageDelayOf(p) == IF p = InitRun THEN InitStageDelay ELSE FetchStageDelay

DelaysAreFull(p) ==
    /\ \A i \in 1..Len(orch[p].delays) : orch[p].delays[i] = StageDelayOf(p)
    /\ orch[p].pc = "stage" => Len(orch[p].delays) = Len(orch[p].begun) - 1
    /\ orch[p].pc = "delay" => Len(orch[p].delays) = Len(orch[p].begun)

C12_FullDelayBetweenStages ==
    [][\A p \in Runs :
          /\ DelaysAreFull(p)'
          /\ (orch'[p].begun # orch[p].begun /\ orch[p].begun # <<>>)
                => orch[p].pc = "delay"
      ]_vars

\* The zones stage of init was requested after the score stage, which made
\* backoff waits, and one delay of 2000 ms.
C12_Witness ==
    /\ orch[InitRun].begun = <<"score", "zones">>
    /\ orch[InitRun].pc = "stage"
    /\ orch[InitRun].backoffs = 2
    /\ orch[InitRun].delays = <<InitStageDelay>>

(***************************************************************************)
(* C13.  The step in which a stage of a run fails writes none of the data  *)
(* fields of the state; at the end of a run of init in which a stage       *)
(* failed, the field of that stage has its initial value and the field of  *)
(* every earlier stage has the value that stage wrote.                     *)
(***************************************************************************)
AppData(a) == <<a.safetyScore, a.threatZones, a.safeRoute, a.riskTrend>>

ScriptData(s) == <<s.safetyScore, s.safeRoute, s.threatZones>>

StageFails(p) ==
    /\ orch[p].pc # "done"
    /\ orch'[p].pc = "done"
    /\ orch'[p].failed # "none"

FailedInitKeepsFields ==
    (orch[InitRun].pc = "done" /\ orch[InitRun].failed # "none") =>
        \A k \in 1..Len(orch[InitRun].begun) :
            IF InitStages[k] = orch[InitRun].failed
            THEN AppField(app, InitStages[k]) = AppField(AppInitial, InitStages[k])
            ELSE AppField(app, InitStages[k]) # AppField(AppInitial, InitStages[k])

C13_FailedStageWritesNothing ==
    [][/\ \A p \in Runs :
             StageFails(p) => /\ AppData(app') = AppData(app)
                              /\ ScriptData(st') = ScriptData(st)
       /\ FailedInitKeepsFields'
      ]_vars

\* The trend stage of init failed after the three stages before it had
\* written their fields.
C13_Witness ==
    /\ orch[InitRun].pc = "done"
    /\ orch[InitRun].failed = "trend"
    /\ app.safeRoute = "route"
    /\ app.threatZones = "zones"
    /\ app.riskTrend = AppInitial.riskTrend

(***************************************************************************)
(* The shape of a SafetyScore: the four numeric fields, each in [0, 100].  *)
(***************************************************************************)
HasScoreFields(doc) == DOMAIN FieldsOf(doc) = ScoreFields

ScoreInRange(doc) ==
    /\ HasScoreFields(doc)
    /\ \A f \in ScoreFields : FieldsOf(doc)[f] >= 0 /\ FieldsOf(doc)[f] <= 100

\* The response text holds a document with the four fields of a score.
MatchesScoreShape(text) ==
    text \in DOMAIN ParsedDoc /\ HasScoreFields(ParsedDoc[text])

(***************************************************************************)
(* C14.  As claimed: whenever the score stage of init was answered with a  *)
(* response that does not match the score shape, analyzeRouteSafety        *)
(* returned the fallback SafetyScore and the fallback is what the state    *)
(* holds.                                                                  *)
(***************************************************************************)
C14_Claimed_FallbackForEveryMismatch ==
    (/\ orch[InitRun].stage = 1
     /\ orch[InitRun].pc = "delay"
     /\ ~MatchesScoreShape(orch[InitRun].text))
        => app.safetyScore = FallbackScore

(***************************************************************************)
(* C15.  As claimed: in every state the stored SafetyScore, of the         *)
(* application and of the script, is absent or has the four numeric fields *)
(* with values in [0, 100].                                                *)
(***************************************************************************)
C15_Claimed_StoredScoreWellFormed ==
    /\ app.safetyScore = "null" \/ ScoreInRange(app.safetyScore)
    /\ st.safetyScore = "null" \/ ScoreInRange(st.safetyScore)

(***************************************************************************)
(* Helpers of the claims about the map views.                              *)
(***************************************************************************)
LayersOfKind(v, kind) == {l \in v.layers : l.kind = kind}

\* The layers the handles refer to.
Referenced(v) == ({v.marker, v.route} \cup SeqRange(v.overlays)) \ {0}

\* MapComponent has a map: an effect ran with Leaflet loaded, and so did the
\* effect of every render since.
Reconciled == program = "component" /\ view.map

OneMarkerAtMostOneLine(v) ==
    /\ Cardinality(LayersOfKind(v, "marker")) = 1
    /\ Cardinality(LayersOfKind(v, "polyline")) <= 1

NothingUnreferenced(v) == \A l \in v.layers : l.id \in Referenced(v)

\* Overlay number i is the circle of zone number i.
OverlayPerZone(v, zones) ==
    /\ Len(v.overlays) = Len(zones)
    /\ Cardinality(LayersOfKind(v, "circle")) = Len(zones)
    /\ \A i \in 1..Len(zones) :
          \E l \in LayersOfKind(v, "circle") :
              /\ l.id = v.overlays[i]
              /\ l.geom = <<zones[i].at>>
              /\ l.radius = zones[i].radius

(***************************************************************************)
(* C16.  As claimed: after any reconciliations of MapComponent with        *)
(* Leaflet loaded the map holds exactly one marker, at most one route      *)
(* line and exactly one overlay per current ThreatZone, and every layer on *)
(* the map is referenced by a handle.                                      *)
(***************************************************************************)
C16_Original_OneOverlayPerZone ==
    Reconciled =>
        /\ OneMarkerAtMostOneLine(view)
        /\ OverlayPerZone(view, props.threatZones)
        /\ NothingUnreferenced(view)

(***************************************************************************)
(* C16.  After any reconciliations of MapComponent with Leaflet loaded the *)
(* map holds exactly one marker, at most one route line, exactly one       *)
(* overlay per current ThreatZone while showThreats is set and no overlay  *)
(* while it is not, and every layer on the map is referenced by a handle.  *)
(***************************************************************************)
C16_HandleCounts ==
    Reconciled =>
        /\ OneMarkerAtMostOneLine(view)
        /\ OverlayPerZone(view, IF props.showThreats THEN props.threatZones ELSE <<>>)
        /\ NothingUnreferenced(view)

\* Several reconciliations have run (the marker has been moved), and the map
\* shows a route line and the overlays of three zones.
C16_Witness ==
    /\ Reconciled
    /\ props.showThreats
    /\ Len(props.threatZones) = 3
    /\ props.center = Hudson
    /\ Cardinality(view.layers) = 5
    /\ view.route # 1

(***************************************************************************)
(* C17.  Running MapComponent's effect, or updateMap, a second time with   *)
(* the same state gives the same visible view (the position and style of   *)
(* the marker, the points and style of the route line, the overlays), the  *)
(* same number of layers and the same handle counts as running it once.    *)
(***************************************************************************)
Visible(v) ==
    {[kind |-> l.kind, geom |-> l.geom, radius |-> l.radius, style |-> l.style] :
        l \in v.layers}

HandleCounts(v) ==
    <<IF v.marker # 0 THEN 1 ELSE 0, IF v.route # 0 THEN 1 ELSE 0, Len(v.overlays)>>

SameView(a, b) ==
    /\ Visible(a) = Visible(b)
    /\ Cardinality(a.layers) = Cardinality(b.layers)
    /\ HandleCounts(a) = HandleCounts(b)

C17_ReconciliationIdempotent ==
    /\ program = "component" =>
          SameView(MapEffect(MapEffect(view, props), props), MapEffect(view, props))
    /\ program = "mapscript" =>
          SameView(updateMap(updateMap(view, st), st), updateMap(view, st))

\* The script's map shows the marker, the route and three overlays, and
\* updateMap has run with the state as it is.
C17_Witness ==
    /\ program = "mapscript"
    /\ view.map
    /\ Cardinality(view.layers) = 5
    /\ st.isSOSActive
    /\ Visible(updateMap(view, st)) = Visible(view)

(***************************************************************************)
(* C18.  MapComponent keeps the marker it created: a reconciliation with a *)
(* marker handle leaves the handle and the number of markers created as    *)
(* they were and the marker on the map, and after every reconciliation the *)
(* marker is at the current location.                                      *)
(***************************************************************************)
MarkerAt(v, at) ==
    \E l \in LayersOfKind(v, "marker") : l.id = v.marker /\ l.geom = <<at>>

C18_MarkerMovedInPlace ==
    [][program = "component" =>
          /\ view.marker # 0 =>
                /\ view'.marker = view.marker
                /\ view'.made = view.made
                /\ \E l \in LayersOfKind(view', "marker") : l.id = view.marker
          /\ view'.map => MarkerAt(view', props'.center)
      ]_vars

\* The one marker ever created has been moved from Chelsea to Hudson.
C18_Witness ==
    /\ Reconciled
    /\ view.made = 1
    /\ props.center = Hudson
    /\ MarkerAt(view, Hudson)

(***************************************************************************)
(* C19.  As claimed: after every reconciliation of MapComponent the       *)
(* marker's icon and the route line's colour and dash pattern are those of *)
(* the current distress flag.                                              *)
(***************************************************************************)
C19_Claimed_StylesFollowDistress ==
    Reconciled =>
        /\ \A l \in LayersOfKind(view, "marker") : l.style = userIcon(props.isDistress)
        /\ \A l \in LayersOfKind(view, "polyline") : l.style = routeStyle(props.isDistress)

(***************************************************************************)
(* C20.  As claimed: a toggle of the distress flag with its reconciliation *)
(* (a render of MapComponent in which only isDistress changed, or          *)
(* triggerSOS with a map) leaves the marker's position and the route       *)
(* line's points as they were.                                             *)
(***************************************************************************)
MarkerPosition(v) == {l.geom : l \in LayersOfKind(v, "marker")}

RoutePoints(v) == {l.geom : l \in LayersOfKind(v, "polyline")}

DistressToggled ==
    /\ view.map
    /\ \/ program = "component" /\ props' = [props EXCEPT !.isDistress = ~@]
       \/ program = "mapscript" /\ st' = [st EXCEPT !.isSOSActive = ~@]

C20_Original_ToggleKeepsGeometry ==
    [][DistressToggled =>
          /\ MarkerPosition(view') = MarkerPosition(view)
          /\ RoutePoints(view') = RoutePoints(view)
      ]_vars

(***************************************************************************)
(* C20.  A toggle of the distress flag with its reconciliation leaves the  *)
(* marker's position as it was, and the route line's points as they were   *)
(* when the line on the map was that of the current state before the       *)
(* toggle (in the script the route fetchEnvironmentAnalysis has stored is  *)
(* drawn only by the next updateMap).                                      *)
(***************************************************************************)
RouteOfState ==
    IF program = "component"
    THEN IF Len(effectivePoints(props)) > 0 THEN {effectivePoints(props)} ELSE {}
    ELSE IF Truthy(st.safeRoute) THEN {PointsOfRoute(st.safeRoute)} ELSE {}

C20_ToggleKeepsGeometry ==
    [][DistressToggled =>
          /\ MarkerPosition(view') = MarkerPosition(view)
          /\ RoutePoints(view) = RouteOfState => RoutePoints(view') = RoutePoints(view)
      ]_vars

\* The SOS of the script is on and the map shows the marker and the stored
\* route in the colour of distress.
C20_Witness ==
    /\ program = "mapscript"
    /\ st.isSOSActive
    /\ MarkerPosition(view) = {<<st.currentLocation>>}
    /\ \E l \in LayersOfKind(view, "polyline") :
          l.geom = PointsOfRoute(st.safeRoute) /\ l.style = scriptRouteColor(TRUE)

(***************************************************************************)
(* C21.  After every reconciliation of MapComponent the route line on the  *)
(* map is that of the supplied route points when there are some, else the  *)
(* two points [center, destination] when a destination is set, else there *)
(* is no line; with center (40.7484, -74.0010), destination               *)
(* (40.7580, -73.9855) and no route points the line is exactly             *)
(* [center, destination].                                                  *)
(***************************************************************************)
ExpectedLines(pr) ==
    IF pr.routePoints # <<>> THEN {pr.routePoints}
    ELSE IF pr.destination # NoPlace THEN {<<pr.center, pr.destination>>}
    ELSE {}

ScenarioA ==
    /\ props.center = Chelsea
    /\ props.destination = Midtown
    /\ props.routePoints = <<>>

C21_RouteLineFromEffectivePoints ==
    Reconciled =>
        /\ RoutePoints(view) = ExpectedLines(props)
        /\ ScenarioA => RoutePoints(view) = {<<Chelsea, Midtown>>}

\* No route points and no destination: the line an earlier reconciliation
\* drew (the handle is still held) has been removed and none was created.
C21_Witness ==
    /\ Reconciled
    /\ props.routePoints = <<>>
    /\ props.destination = NoPlace
    /\ view.route # 0
    /\ LayersOfKind(view, "polyline") = {}

(***************************************************************************)
(* C22.  As claimed: in both reconcilers overlays of zones of different    *)
(* intensity have different colours, and every overlay is centred at its   *)
(* zone's coordinate with the zone's radius.                               *)
(***************************************************************************)
\* The zones the overlays on the map were made from.
ZonesShown ==
    IF program = "component"
    THEN IF props.showThreats THEN props.threatZones ELSE <<>>
    ELSE ZonesOf(st.threatZones)

HasMap == program \in {"component", "mapscript"} /\ view.map

OverlayOf(i) == CHOOSE l \in view.layers : l.id = view.overlays[i]

\* The map shows the overlays of the current zones (in the script the zones
\* a run has stored are drawn by the next updateMap).
OverlaysCurrent == OverlayPerZone(view, ZonesShown)

ColoursDistinctByIntensity ==
    \A i, j \in 1..Len(ZonesShown) :
        ZonesShown[i].intensity # ZonesShown[j].intensity
            => OverlayOf(i).style # OverlayOf(j).style

C22_Original_ThreeDistinctColours ==
    (HasMap /\ OverlaysCurrent) => ColoursDistinctByIntensity

(***************************************************************************)
(* C22.  MapComponent gives the overlays of High, Medium and Low zones     *)
(* three pairwise distinct fixed colours; updateMap gives High zones one   *)
(* colour and the zones of every other intensity one other colour; in both *)
(* every overlay is centred at its zone's coordinate with its radius.      *)
(***************************************************************************)
TierColour ==
    ("High" :> "#ef4444") @@ ("Medium" :> "#f59e0b") @@ ("Low" :> "#3b82f6")

ScriptTierColour ==
    ("High" :> "#ef4444") @@ ("Medium" :> "#f59e0b") @@ ("Low" :> "#f59e0b")

C22_OverlayColours ==
    /\ \A a, b \in DOMAIN TierColour : a # b => TierColour[a] # TierColour[b]
    /\ ScriptTierColour["High"] # ScriptTierColour["Medium"]
    /\ (HasMap /\ OverlaysCurrent) =>
          \A i \in 1..Len(ZonesShown) :
              /\ OverlayOf(i).style =
                    IF program = "component" THEN TierColour[ZonesShown[i].intensity]
                    ELSE ScriptTierColour[ZonesShown[i].intensity]
              /\ OverlayOf(i).geom = <<ZonesShown[i].at>>
              /\ OverlayOf(i).radius = ZonesShown[i].radius

\* MapComponent shows the overlays of a High, a Medium and a Low zone.
C22_Witness ==
    /\ Reconciled
    /\ Len(ZonesShown) = 3
    /\ OverlaysCurrent
    /\ {OverlayOf(i).style : i \in 1..3} = {"#ef4444", "#f59e0b", "#3b82f6"}

(***************************************************************************)
(* C23.  Without the mapping service a reconciliation is a no-op: a step   *)
(* of MapComponent while Leaflet is not loaded, and a step of the script   *)
(* that leaves it without a map, change no handle and no layer, and a run  *)
(* of fetchEnvironmentAnalysis that ends without a map leaves loading      *)
(* false.                                                                  *)
(***************************************************************************)
C23_NoOpWithoutMappingService ==
    [][/\ (program = "component" /\ ~props'.leaflet) => view' = view
       /\ (program = "mapscript" /\ ~view'.map) =>
             /\ view' = view
             /\ RunEnds(FetchRun(1)) => ~st'.isLoading
      ]_vars

\* A run of the script has stored a route and zones and has ended while no
\* map exists: nothing was drawn and loading is false.
C23_Witness ==
    /\ program = "mapscript"
    /\ orch[FetchRun(1)].pc = "done"
    /\ orch[FetchRun(1)].endedBy = "success"
    /\ Truthy(st.safeRoute)
    /\ view = NoView
    /\ ~st.isLoading

(***************************************************************************)
(* C27.  As claimed: while a stage request, a backoff wait or an           *)
(* inter-stage delay of any run is outstanding the loading flag of the     *)
(* run's program is true, also when a second run of the script was started *)
(* before the first ended.                                                 *)
(***************************************************************************)
Outstanding(p) == orch[p].pc \in {"stage", "delay"}

C27_Claimed_LoadingWhileOutstanding ==
    \A p \in Runs : Outstanding(p) => Loading(p)

(***************************************************************************)
(* C29.  As claimed: in the zones, route and trend stages of the service   *)
(* module a failure of JSON.parse is never followed by a backoff wait or   *)
(* by another request of the same call.                                    *)
(***************************************************************************)
ParseFailure(error) == error.hasMessage /\ error.message \in {MsgSyntax, MsgSyntaxEcho}

C29_Claimed_ParseFailureNotRetried ==
    (/\ program = "app"
     /\ orch[InitRun].pc = "stage"
     /\ CurrentStage(InitRun) \in {"zones", "route", "trend"}
     /\ ParseFailure(exec[InitRun].opError))
        => exec[InitRun].pc \notin {"waiting", "calling"}

(***************************************************************************)
(* C30.  When every outstanding request is eventually settled and every    *)
(* timer eventually fires, every run that was started eventually has ended *)
(* with the loading flag false, whatever failures the service produces.    *)
(***************************************************************************)
C30_EveryRunEnds ==
    \A p \in FairRuns : Outstanding(p) ~> (orch[p].pc = "done" /\ ~Loading(p))

\* Two runs of the script have ended, one because the executor exhausted its
\* budget and one after its last stage, nothing is outstanding and loading
\* is false.
C30_Witness ==
    /\ orch[FetchRun(1)].pc = "done"
    /\ orch[FetchRun(1)].endedBy = "budget"
    /\ orch[FetchRun(2)].pc = "done"
    /\ orch[FetchRun(2)].endedBy = "success"
    /\ inflight = {}
    /\ ~st.isLoading

(***************************************************************************)
(* Helpers of the chat's claims.                                           *)
(***************************************************************************)
Transcript == IF program = "fullapp" THEN app.chatMessages ELSE st.messages

\* The entries the transcript starts with (the script's greeting).
Greeted == IF program = "fullapp" THEN 0 ELSE Len(ScriptInitial.messages)

\* The places in the transcript of the entries of a role that send n made.
EntriesOf(n, role) ==
    {k \in 1..Len(chat.origin) :
        chat.origin[k] = n /\ Transcript[k + Greeted].role = role}

Pending(n) == \E r \in chat.pending : r.send = n

(***************************************************************************)
(* C24.  Whatever sends handleSendMessage has made, also while earlier     *)
(* ones await their response, createSafetyChat has been called at most     *)
(* once, namely once as soon as a send with a text was made, and every     *)
(* send went through the session it returned.                              *)
(***************************************************************************)
C24_OneSessionForAllSends ==
    program = "fullapp" =>
        /\ chat.created <= 1
        /\ chat.created = 1 <=> chat.issued > 0
        /\ chat.session = chat.created
        /\ chat.used \subseteq {1}
        /\ \A r \in chat.pending : r.session = 1

\* Two sends await their response at the same time.
C24_Witness ==
    /\ program = "fullapp"
    /\ Cardinality(chat.pending) = 2
    /\ chat.created = 1

(***************************************************************************)
(* C25.  Every send with a text has appended its user entry when its       *)
(* request is outstanding, and appends exactly one model entry, after the  *)
(* user entry, when the request is settled: the response text, or a text   *)
(* fixed in the program (in App one of two, by whether the failure's       *)
(* message holds '429'); a send makes one request, which is never made     *)
(* again, and no step of the chat starts a withRetry call or a timer.      *)
(***************************************************************************)
ExpectedAnswer(reply) ==
    IF ~reply.rejected THEN reply.text
    ELSE IF program = "fullapp"
    THEN IF reply.hasMessage /\ reply.message = MsgHttp429
         THEN "Service busy. I'm still watching your route locally."
         ELSE "Signal weak, but SOS links are active."
    ELSE "Satellite link weak. Stick to high-density lighting zones."

OneAnswerPerSend ==
    /\ Len(Transcript) = Len(chat.origin) + Greeted
    /\ \A n \in 1..chat.issued :
          /\ Cardinality(EntriesOf(n, "user")) = 1
          /\ \A k \in EntriesOf(n, "user") : trim(Transcript[k + Greeted].text) # <<>>
          /\ Pending(n) => EntriesOf(n, "model") = {}
          /\ ~Pending(n) =>
                /\ Cardinality(EntriesOf(n, "model")) = 1
                /\ \A k \in EntriesOf(n, "model") :
                      /\ \A u \in EntriesOf(n, "user") : u < k
                      /\ Transcript[k + Greeted].text = ExpectedAnswer(chat.replies[n])

OneRequestPerSend ==
    /\ \A r \in chat.pending' :
          r \in chat.pending \/ r.send = chat.issued + 1
    /\ chat' # chat => exec' = exec /\ inflight' = inflight

C25_OneModelEntryPerSend ==
    /\ [](program \in {"fullapp", "fullscript"} => OneAnswerPerSend)
    /\ [][OneRequestPerSend]_vars

\* Two sends of App were made before either was answered; the second was
\* answered first, by a failure with '429', the first by a response.
C25_Witness ==
    /\ program = "fullapp"
    /\ Len(app.chatMessages) = 4
    /\ chat.origin = <<1, 2, 2, 1>>
    /\ app.chatMessages[3].text = BusyText
    /\ app.chatMessages[4].text = "text:advice"

(***************************************************************************)
(* C26.  A step of an orchestration run changes neither the distress flag  *)
(* nor the chat transcript; a step of the chat changes none of score,      *)
(* zones, route, trend, loading, the rate-limit flag and the distress      *)
(* flag; a step that changes the distress flag changes no other field.     *)
(***************************************************************************)
RunStep == orch' # orch \/ exec' # exec \/ inflight' # inflight

ChatStep == chat' # chat

DistressStep == app'.isSOSActive # app.isSOSActive \/ st'.isSOSActive # st.isSOSActive

RunFields ==
    <<app.safetyScore, app.threatZones, app.safeRoute, app.riskTrend, app.isLoading,
      app.isRateLimited, st.safetyScore, st.threatZones, st.safeRoute, st.isLoading>>

DistressFlags == <<app.isSOSActive, st.isSOSActive>>

Transcripts == <<app.chatMessages, st.messages>>

C26_WritersAreDisjoint ==
    [][/\ RunStep => DistressFlags' = DistressFlags /\ Transcripts' = Transcripts
       /\ ChatStep => RunFields' = RunFields /\ DistressFlags' = DistressFlags
       /\ DistressStep =>
             /\ app' = [app EXCEPT !.isSOSActive = app'.isSOSActive]
             /\ st' = [st EXCEPT !.isSOSActive = st'.isSOSActive]
      ]_vars

\* In the script the three writers have acted: a run has stored its data
\* and ended, a chat message was answered and the distress flag is set.
C26_Witness ==
    /\ program = "fullscript"
    /\ orch[FetchRun(1)].endedBy = "success"
    /\ st.threatZones = "zones"
    /\ st.isSOSActive
    /\ Len(st.messages) = 3
    /\ chat.pending = {}

(***************************************************************************)
(* C28.  With a second run of fetchEnvironmentAnalysis started while the   *)
(* first is in flight, no step of a run changes the other run or removes   *)
(* its request, every run in flight has a request or a timer outstanding,  *)
(* and each field of the state holds what the latest stage that resolved   *)
(* for that field, of whichever run, has written.                          *)
(***************************************************************************)
Reruns == {FetchRun(1), FetchRun(2)}

\* What the state holds of a document a stage has parsed.
StoredOf(stage, doc) ==
    IF stage = "route" THEN (IF doc = "route" THEN "route.points" ELSE "undefined")
    ELSE doc

LastWriterWins ==
    \A stage \in {"score", "route", "zones"} :
        ScriptField(st, stage) =
            IF wrote[stage] = NoWrite THEN ScriptField(ScriptInitial, stage)
            ELSE StoredOf(stage, wrote[stage].value)

RunInProgress(p) ==
    \/ orch[p].pc = "delay"
    \/ /\ orch[p].pc = "stage"
       /\ \/ exec[p].pc = "waiting"
          \/ /\ exec[p].pc = "calling"
             /\ \E r \in inflight : r.proc = p /\ r.attempt = exec[p].attempts

NoRunCancelled ==
    /\ \A p, q \in Reruns :
          (p # q /\ (orch'[p] # orch[p] \/ exec'[p] # exec[p]))
             => /\ orch'[q] = orch[q]
                /\ exec'[q] = exec[q]
                /\ \A r \in inflight : r.proc = q => r \in inflight'
    /\ \A p \in Reruns : orch[p].pc # "done" /\ orch'[p].pc = "done" =>
          orch'[p].endedBy \in {"success", "parse", "failure", "budget"}

C28_OverlappingRunsLastWriterWins ==
    /\ [](program = "rerun" =>
            /\ LastWriterWins
            /\ \A p \in Reruns : Outstanding(p) => RunInProgress(p))
    /\ [][NoRunCancelled]_vars

\* Both runs have ended after their last stage; the second run's score,
\* which differs from the first's, was written last, and the first run's
\* zones were written after the second's.
C28_Witness ==
    /\ program = "rerun"
    /\ \A p \in Reruns : orch[p].pc = "done" /\ orch[p].endedBy = "success"
    /\ wrote["score"] = [run |-> FetchRun(2), value |-> "scoreHigh"]
    /\ wrote["zones"].run = FetchRun(1)
    /\ st.safetyScore = "scoreHigh"

(***************************************************************************)
(* C31.  Whenever the script has a map, after whatever runs of updateMap,  *)
(* state writes and SOS toggles, the map holds exactly one marker, at the  *)
(* current location, at most one route line and exactly one overlay per    *)
(* element of state.threatZones, and no layer that the script's handles do *)
(* not reference.                                                          *)
(***************************************************************************)
ScriptHasMap == program = "mapscript" /\ view.map

C31_ScriptMapMatchesState ==
    ScriptHasMap =>
        /\ OneMarkerAtMostOneLine(view)
        /\ MarkerAt(view, st.currentLocation)
        /\ OverlayPerZone(view, ZonesOf(st.threatZones))
        /\ NothingUnreferenced(view)

\* updateMap has run several times (the marker is not the first one made):
\* a run has stored a route and three zones, and the SOS is off again.
C31_Witness ==
    /\ ScriptHasMap
    /\ view.marker > 1
    /\ ~st.isSOSActive
    /\ Truthy(st.safeRoute)
    /\ Len(ZonesOf(st.threatZones)) = 3
    /\ Cardinality(view.layers) = 5
    /\ orch[FetchRun(1)].pc = "done"

(***************************************************************************)
(* C32.  The step that ends a run of fetchEnvironmentAnalysis, by success  *)
(* or by failure, leaves the loading flag false and, if a map exists, a    *)
(* map whose route line and overlays are those of the state the run left,  *)
(* with every write of the run in it.                                      *)
(***************************************************************************)
LineOfState(s) == IF s.safeRoute \in {"null", "undefined"} THEN {} ELSE {PointsOfRoute(s.safeRoute)}

C32_MapUpdatedAtEndOfRun ==
    [][(program = "mapscript" /\ RunEnds(FetchRun(1))) =>
          /\ ~st'.isLoading
          /\ view'.map =>
                /\ RoutePoints(view') = LineOfState(st')
                /\ OverlayPerZone(view', ZonesOf(st'.threatZones))
                /\ MarkerAt(view', st'.currentLocation)
      ]_vars

\* The run stored a route and then failed in the zones stage: the map shows
\* the route the run stored.
C32_Witness ==
    /\ ScriptHasMap
    /\ orch[FetchRun(1)].pc = "done"
    /\ orch[FetchRun(1)].failed = "zones"
    /\ ~st.isLoading
    /\ RoutePoints(view) = {PointsOfRoute("route.points")}
    /\ st.safeRoute = "route.points"

(***************************************************************************)
(* C33.  As claimed: while a run of App's init is in progress              *)
(* isRateLimited is false, and after the run has ended it is true exactly  *)
(* when the run was ended by a failure with the rate-limit signature (a    *)
(* message holding '429', 'quota' or 'exhausted' in any case).             *)
(***************************************************************************)
C33_Claimed_FlagIffRateLimitedAbort ==
    program = "app" =>
        /\ Outstanding(InitRun) => ~app.isRateLimited
        /\ orch[InitRun].pc = "done" =>
              (app.isRateLimited <=> orch[InitRun].endedBy = "budget")

(***************************************************************************)
(* C34.  As claimed: the entries of the transcript (after the script's     *)
(* greeting) alternate user, model, and each model entry answers the user  *)
(* entry right before it, also when a message is sent while an earlier one *)
(* awaits its response.                                                    *)
(***************************************************************************)
C34_Claimed_EntriesAlternate ==
    program \in {"fullapp", "fullscript"} =>
        \A k \in 1..Len(chat.origin) :
            IF k % 2 = 1
            THEN Transcript[k + Greeted].role = "user"
            ELSE /\ Transcript[k + Greeted].role = "model"
                 /\ chat.origin[k] = chat.origin[k - 1]

(***************************************************************************)
(* C35.  As claimed: whenever a map exists, the route-line handle is       *)
(* non-null only if the layer it refers to is on the map.                  *)
(***************************************************************************)
C35_Claimed_RouteHandleIsLive ==
    HasMap => (view.route # 0 => \E l \in view.layers : l.id = view.route)

(***************************************************************************)
(* C36.  A reconciliation of MapComponent with showThreats false leaves no *)
(* overlay on the map and an empty list of overlay handles, whatever the   *)
(* zones are, and a reconciliation with showThreats true that follows one  *)
(* with showThreats false leaves exactly one overlay per current zone.     *)
(***************************************************************************)
NoOverlays(v) == LayersOfKind(v, "circle") = {} /\ v.overlays = <<>>

C36_OverlaysHiddenAndRestored ==
    [][(program = "component" /\ view'.map) =>
          /\ ~props'.showThreats => NoOverlays(view')
          /\ (view.map /\ ~props.showThreats /\ props'.showThreats) =>
                /\ NoOverlays(view)
                /\ OverlayPerZone(view', props'.threatZones)
      ]_vars

\* Three zones are supplied and showThreats is false: the map shows the
\* marker and a route line and no overlay.
C36_Witness ==
    /\ Reconciled
    /\ ~props.showThreats
    /\ Len(props.threatZones) = 3
    /\ NoOverlays(view)
    /\ Cardinality(view.layers) = 2

(***************************************************************************)
(* C37.  While the chat input is empty or holds only white space, no step  *)
(* (a send among them) appends a user entry to the transcript, creates a   *)
(* chat session or makes a request of the chat.                            *)
(***************************************************************************)
InputIsBlank == trimEnd(trimStart(chat.input)) = <<>>

UserEntries(t) == {k \in 1..Len(t) : t[k].role = "user"}

C37_BlankInputSendsNothing ==
    [][(program \in {"fullapp", "fullscript"} /\ InputIsBlank) =>
          /\ UserEntries(app'.chatMessages) = UserEntries(app.chatMessages)
          /\ UserEntries(st'.messages) = UserEntries(st.messages)
          /\ chat'.session = chat.session
          /\ chat'.created = chat.created
          /\ chat'.issued = chat.issued
          /\ chat'.pending \subseteq chat.pending
      ]_vars

\* In App the user has typed a blank after an answered message: a send now
\* returns at its first line.
C37_Witness ==
    /\ program = "fullapp"
    /\ chat.input = <<" ">>
    /\ chat.issued = 1
    /\ chat.pending = {}
    /\ Len(app.chatMessages) = 2

====
